---------------------------- MODULE Spec2Model ----------------------------
(***************************************************************************)
(* A model of the Janus input pipeline (src/janus/interfaces/input).       *)
(*                                                                         *)
(* Python strings whose characters matter (permissions, message texts) are *)
(* sequences of one-character strings, so that startswith, endswith,       *)
(* slicing and the code-point order used by sorted() are computed and not  *)
(* assumed.  Opaque identifiers (user ids, stage names, error tags) are    *)
(* TLA+ strings.                                                           *)
(***************************************************************************)
EXTENDS Integers, Sequences, FiniteSets, TLC

VARIABLES
    \* --- permission resolver (authentication.py, PermissionResolver) ---
    credential_permissions, \* argument of compute_final_permissions
    user_permissions,       \* argument of compute_final_permissions
    final_permissions,      \* value returned by compute_final_permissions
    perm_pc,                \* "input" until the call returns, then "done"
    \* --- one run of InputPipeline.process (pipeline.py) ---
    pc,                     \* START, AUTHENTICATING, VALIDATING, PROCESSING, COMPLETE, FAILED
    now,                    \* the system clock, in microseconds
    raw_input,              \* argument of process
    credentials,            \* argument of process (SourceCredentials)
    result,                 \* the PipelineResult of the run
    auth_context,           \* value of the authentication stage, once it succeeded
    validated_input,        \* value of the validation stage, once it succeeded
    calls,                  \* the collaborator calls made so far, in order
    \* --- operations called on their own (processing.py, pipeline.py) ---
    applied,                \* the last call: the operation, its arguments and its value
    \* --- the capability registry shared by the runs (capabilities.py) ---
    providers,              \* the registered provider ids, in registration order
    by_capability,          \* for each capability, the ids of the providers indexed under it
    writing,                \* for each task, the registration or unregistration it is inside
    reading,                \* the tasks that hold the registry for lookups
    lookup,                 \* the last lookup, while the registry is as the lookup found it
    \* --- two runs of InputPipeline.process on one pipeline (pipeline.py) ---
    results,                \* the PipelineResult objects created so far, by address
    runs,                   \* for each run, where it stands and the locals of its process call
    clock,                  \* the system clock the two runs read, in microseconds
    \* --- the MVP server (src/janus-mvp/janus_mvp) ---
    subscribers,            \* InMemoryEventBus.subscribers: for each event type, its handlers in order
    event_history,          \* InMemoryEventBus.event_history
    _items,                 \* InMemoryStore._items
    requests,               \* for each request, where it stands and the locals of its endpoint call
    next_id,                \* the number of identifiers new_id() has handed out
    server_clock            \* the clock utc_now() reads

permVars == <<credential_permissions, user_permissions, final_permissions, perm_pc>>

pipeVars == <<pc, now, raw_input, credentials, result, auth_context, validated_input, calls>>

eventVars == <<applied>>

registryVars == <<providers, by_capability, writing, reading, lookup>>

runVars == <<results, runs, clock>>

serverVars == <<subscribers, event_history, _items, requests, next_id, server_clock>>

\* what a step of the permission resolver, of a pipeline run, of an
\* operation called on its own, of the registry, of one of two concurrent
\* runs, of the MVP server leaves alone
nonPermVars == <<pipeVars, eventVars, registryVars, runVars, serverVars>>
nonPipeVars == <<permVars, eventVars, registryVars, runVars, serverVars>>
nonEventVars == <<permVars, pipeVars, registryVars, runVars, serverVars>>
nonRegistryVars == <<permVars, pipeVars, eventVars, runVars, serverVars>>
nonRunVars == <<permVars, pipeVars, eventVars, registryVars, serverVars>>
nonServerVars == <<permVars, pipeVars, eventVars, registryVars, runVars>>

vars == <<permVars, pipeVars, eventVars, registryVars, runVars, serverVars>>

-----------------------------------------------------------------------------
(* Python str primitives on character sequences *)

Lower == <<"a","b","c","d","e","f","g","h","i","j","k","l","m",
           "n","o","p","q","r","s","t","u","v","w","x","y","z">>

\* ord(c): the Unicode code point, which is what str comparison uses
Ord(c) ==
    CASE c = " " -> 32
      [] c = "!" -> 33
      [] c = "*" -> 42
      [] c = "+" -> 43
      [] c = "." -> 46
      [] c = "/" -> 47
      [] c = "2" -> 50
      [] c = "C" -> 67
      [] c = "_" -> 95
      [] OTHER   -> 96 + (CHOOSE i \in 1..Len(Lower) : Lower[i] = c)

\* s.startswith(prefix)
startswith(s, prefix) ==
    /\ Len(prefix) <= Len(s)
    /\ SubSeq(s, 1, Len(prefix)) = prefix

\* s.endswith(suffix)
endswith(s, suffix) ==
    /\ Len(suffix) <= Len(s)
    /\ SubSeq(s, Len(s) - Len(suffix) + 1, Len(s)) = suffix

\* a < b for Python str: lexicographic by code point, a proper prefix is smaller
StrLess(a, b) ==
    \E i \in 1..(Len(b)) :
        /\ i <= Len(a) + 1
        /\ SubSeq(a, 1, i - 1) = SubSeq(b, 1, i - 1)
        /\ (i = Len(a) + 1 \/ Ord(a[i]) < Ord(b[i]))

\* set(list)
ToSet(list) == { list[i] : i \in 1..Len(list) }

\* every order in which iterating a Python set may yield its elements
RECURSIVE Orderings(_)
Orderings(S) ==
    IF S = {} THEN { <<>> }
    ELSE UNION { { <<x>> \o o : o \in Orderings(S \ {x}) } : x \in S }

\* sorted(list) for a list of str: stable insertion into ascending order
RECURSIVE InsertSorted(_, _)
InsertSorted(x, s) ==
    IF s = <<>> THEN <<x>>
    ELSE IF StrLess(x, Head(s)) THEN <<x>> \o s
    ELSE <<Head(s)>> \o InsertSorted(x, Tail(s))

RECURSIVE sorted(_)
sorted(list) ==
    IF list = <<>> THEN <<>>
    ELSE InsertSorted(list[Len(list)], sorted(SubSeq(list, 1, Len(list) - 1)))

-----------------------------------------------------------------------------
(* Permission strings (models.py PermissionScope values and two neighbours) *)

chat             == <<"c","h","a","t">>
tools_all        == <<"t","o","o","l","s",".","*">>
tools_calculator == <<"t","o","o","l","s",".","c","a","l","c","u","l","a","t","o","r">>
memory_read      == <<"m","e","m","o","r","y",".","r","e","a","d">>
tools            == <<"t","o","o","l","s">>
toolsmith        == <<"t","o","o","l","s","m","i","t","h">>

PermUniverse == { chat, tools_all, tools_calculator, memory_read, tools, toolsmith }

\* The documented example of compute_final_permissions
ExampleCredentialPermissions == << chat, tools_all >>
ExampleUserPermissions       == << chat, tools_calculator, memory_read >>
ExampleFinalPermissions      == << chat, tools_calculator >>

MaxCredLen == 2
MaxUserLen == 2

-----------------------------------------------------------------------------
(* PermissionResolver *)

\* expand_loop with the prefix test written without the trailing dot
RECURSIVE expand_loop_no_dot(_, _)
expand_loop_no_dot(wildcard_perms, target_perms) ==
    IF wildcard_perms = <<>> THEN <<>>
    ELSE
        LET perm == wildcard_perms[Len(wildcard_perms)]
            before == expand_loop_no_dot(
                          SubSeq(wildcard_perms, 1, Len(wildcard_perms) - 1), target_perms)
        IN  IF endswith(perm, <<".", "*">>)
            THEN LET prefix == SubSeq(perm, 1, Len(perm) - 2)
                     matching == SelectSeq(target_perms, LAMBDA p : startswith(p, prefix))
                 IN  before \o matching
            ELSE before \o <<perm>>

\* expand_loop with the slice perm[:-1], which leaves the dot on the prefix
RECURSIVE expand_loop_short_slice(_, _)
expand_loop_short_slice(wildcard_perms, target_perms) ==
    IF wildcard_perms = <<>> THEN <<>>
    ELSE
        LET perm == wildcard_perms[Len(wildcard_perms)]
            before == expand_loop_short_slice(
                          SubSeq(wildcard_perms, 1, Len(wildcard_perms) - 1), target_perms)
        IN  IF endswith(perm, <<".", "*">>)
            THEN LET prefix == SubSeq(perm, 1, Len(perm) - 1)
                     matching == SelectSeq(target_perms,
                                     LAMBDA p : startswith(p, prefix \o <<".">>))
                 IN  before \o matching
            ELSE before \o <<perm>>

\* the list `expanded` when the loop of _expand_wildcards ends
RECURSIVE expand_loop(_, _)
expand_loop(wildcard_perms, target_perms) ==
    IF wildcard_perms = <<>> THEN <<>>
    ELSE
        LET perm == wildcard_perms[Len(wildcard_perms)]
            before == expand_loop(SubSeq(wildcard_perms, 1, Len(wildcard_perms) - 1),
                                  target_perms)
        IN  IF endswith(perm, <<".", "*">>)
            THEN LET prefix == SubSeq(perm, 1, Len(perm) - 2)
                     matching == SelectSeq(target_perms,
                                     LAMBDA p : startswith(p, prefix \o <<".">>))
                 IN  before \o matching
            ELSE before \o <<perm>>

\* _expand_wildcards: list(set(expanded)); the set's iteration order is not
\* fixed, so this is the set of lists the call may return
_expand_wildcards(wildcard_perms, target_perms) ==
    Orderings(ToSet(expand_loop(wildcard_perms, target_perms)))

\* intersect_lists that also lets a user entry "X.*" stand for the
\* permissions under "X."
intersect_lists_user_wildcards(expanded_credential_perms, user_perms) ==
    Orderings({ p \in ToSet(expanded_credential_perms) :
                  \/ p \in ToSet(user_perms)
                  \/ \E w \in ToSet(user_perms) :
                        /\ endswith(w, <<".", "*">>)
                        /\ startswith(p, SubSeq(w, 1, Len(w) - 2) \o <<".">>) })

\* intersect_lists with | written for &
intersect_lists_union(expanded_credential_perms, user_perms) ==
    Orderings(ToSet(expanded_credential_perms) \cup ToSet(user_perms))

\* list(set(expanded_credential_perms) & set(user_permissions)), any order
intersect_lists(expanded_credential_perms, user_perms) ==
    Orderings(ToSet(expanded_credential_perms) \cap ToSet(user_perms))

\* compute_final_permissions returning final_perms without sorting it
compute_final_permissions_unsorted(credential_perms, user_perms) ==
    UNION { intersect_lists(e, user_perms) :
              e \in _expand_wildcards(credential_perms, user_perms) }

\* compute_final_permissions: every list the call may return
compute_final_permissions(credential_perms, user_perms) ==
    { sorted(final_perms) :
        final_perms \in UNION { intersect_lists(e, user_perms) :
                                  e \in _expand_wildcards(credential_perms, user_perms) } }

-----------------------------------------------------------------------------
(* The resolver driven on its own: build the two argument lists, then call *)

InitPermVars ==
    /\ credential_permissions = <<>>
    /\ user_permissions = <<>>
    /\ final_permissions = <<>>
    /\ perm_pc = "input"

AddCredentialPermission(p) ==
    /\ perm_pc = "input"
    /\ Len(credential_permissions) < MaxCredLen
    /\ credential_permissions' = Append(credential_permissions, p)
    /\ UNCHANGED <<user_permissions, final_permissions, perm_pc, nonPermVars>>

AddUserPermission(p) ==
    /\ perm_pc = "input"
    /\ Len(user_permissions) < MaxUserLen
    /\ user_permissions' = Append(user_permissions, p)
    /\ UNCHANGED <<credential_permissions, final_permissions, perm_pc, nonPermVars>>

LoadDocumentedExample ==
    /\ perm_pc = "input"
    /\ credential_permissions = <<>>
    /\ user_permissions = <<>>
    /\ credential_permissions' = ExampleCredentialPermissions
    /\ user_permissions' = ExampleUserPermissions
    /\ UNCHANGED <<final_permissions, perm_pc, nonPermVars>>

ComputeFinalPermissions ==
    /\ perm_pc = "input"
    /\ final_permissions' \in
           compute_final_permissions(credential_permissions, user_permissions)
    /\ perm_pc' = "done"
    /\ UNCHANGED <<credential_permissions, user_permissions, nonPermVars>>

NextPerm ==
    \/ \E p \in PermUniverse : AddCredentialPermission(p)
    \/ \E p \in PermUniverse : AddUserPermission(p)
    \/ LoadDocumentedExample
    \/ ComputeFinalPermissions

-----------------------------------------------------------------------------
(* Values shared by the pipeline stages *)

\* Python None where an object is optional
None == [none |-> TRUE]
\* Python None where a str is optional; a str is a sequence of characters
\* or, when it is never taken apart, a sequence holding it in one piece
NoneStr == <<"None">>
\* Python None where a datetime is optional
NoTime == -1

\* a Python dict as the set of its <<key, value>> items
HasKey(d, k) == \E kv \in d : kv[1] = k
Get(d, k) == (CHOOSE kv \in d : kv[1] = k)[2]
GetOr(d, k, default) == IF HasKey(d, k) THEN Get(d, k) ELSE default
Put(d, k, v) == { kv \in d : kv[1] # k } \cup { <<k, v>> }

\* {**d, **e}: the items of e replace those of d with the same key
Merge(d, e) == { kv \in d : ~HasKey(e, kv[1]) } \cup e

\* x or y for optional str: None and "" are falsy
Truthy(x) == x # NoneStr /\ x # <<>>

\* Result.success(value) / Result.error(error)
ResultSuccess(v) == [is_success |-> TRUE, value |-> v, error |-> None]
ResultError(e) == [is_success |-> FALSE, value |-> None, error |-> e]

\* what awaiting a collaborator gives: a Result, or an exception
Returned(r) == [raised |-> FALSE, result |-> r, exception |-> ""]
Raised(e) == [raised |-> TRUE, result |-> None, exception |-> e]

\* microseconds in a millisecond: clock readings are in microseconds and
\* every duration the pipeline records is int((end - start) * 1000) of seconds
UsPerMs == 1000

\* int((end - start) * 1000) for two readings of time.time(), floats in
\* seconds, end >= start.  The float difference of two readings a whole
\* number k >= 1 of milliseconds apart is k/1000 or just under it, by the
\* rounding of the two readings (0.0026 - 0.0016 is 0.0009999999999999998,
\* 0.0021 - 0.0001 is 0.002), so int() gives k or k - 1; `short` says
\* which.  A gap that is not a whole number of milliseconds is more than
\* the rounding away from one and int() gives the whole milliseconds in it.
ElapsedMs(start, end, short) ==
    LET gap == end - start
    IN  IF short /\ gap >= UsPerMs /\ gap % UsPerMs = 0
        THEN gap \div UsPerMs - 1
        ELSE gap \div UsPerMs

\* the whole numbers of milliseconds k under 4004 for which the float
\* product (k / 1000) * 1000 is under k: 1.001 * 1000 is 1000.9999999999999
ShortProducts == { 1001 + 2 * i : i \in 0..11 } \cup { 2002 + 4 * i : i \in 0..11 }

\* int((end - start).total_seconds() * 1000) for two datetimes, end >= start
\* less than 4.004 s apart: the timedelta is exact in microseconds,
\* total_seconds() divides it by 10**6 and the product by 1000 is rounded
timedelta_ms(start, end) ==
    LET gap == end - start
    IN  IF gap % UsPerMs = 0 /\ (gap \div UsPerMs) \in ShortProducts
        THEN gap \div UsPerMs - 1
        ELSE gap \div UsPerMs

\* how long a collaborator call may take, in microseconds
Delays == { 600, 1000 }

\* the processor may also take a second and a millisecond
ProcessingDelays == Delays \cup { 1001000 }

\* how a collaborator call may end
CollaboratorOutcomes == { "ok", "error", "raise" }

-----------------------------------------------------------------------------
(* Inputs of a run *)

calculate_text == <<"C","a","l","c","u","l","a","t","e"," ","2","+","2">>
help_text      == <<"/","h","e","l","p">>
hello_text     == <<"h","e","l","l","o">>
report_pdf     == <<"r",".","p","d","f">>

StrInput(text) == [type |-> "str", str |-> text, dict |-> {}]
DictInput(items) == [type |-> "dict", str |-> <<>>, dict |-> items]

\* a list of one attachment
chart_png      == << <<"c",".","p","n","g">> >>

RawInputs ==
    { DictInput({ <<"text", calculate_text>> }),
      DictInput({ <<"text", help_text>> }),
      DictInput({ <<"file", report_pdf>> }),
      StrInput(hello_text),
      DictInput({ <<"text", hello_text>>, <<"attachments", chart_png>> }),
      DictInput({ <<"text", help_text>>, <<"attachments", chart_png>> }),
      DictInput({ <<"text", hello_text>>, <<"file", report_pdf>> }),
      DictInput({ <<"attachments", chart_png>> }),
      DictInput({ <<"attachments", chart_png>>, <<"file", report_pdf>> }),
      DictInput({}) }

\* SourceCredentials
SourceCredentials(source_type, source_id, credential_perms) ==
    [ source_type |-> source_type,
      source_id |-> source_id,
      credential_permissions |-> credential_perms,
      expires_at |-> NoTime ]

CredentialChoices ==
    { SourceCredentials(<<"api">>, <<"api_key_789">>, ExampleCredentialPermissions),
      SourceCredentials(<<"webhook">>, <<"webhook_endpoint_456">>, << chat >>) }

\* what resolve_user_permissions may return for the acting user
UserPermissionChoices == { << chat, tools_calculator >>, << memory_read >> }

user_12345 == <<"user_12345">>

\* uuid4(), shortened to ten characters; the first eight may coincide
UUIDs == { <<"0","0","0","0","0","0","0","1","-","a">>,
           <<"0","0","0","0","0","0","0","1","-","b">> }

PipelineId == <<"pipeline_1">>

-----------------------------------------------------------------------------
(* Authentication (authentication.py) *)

AuthenticationError(message, reason) ==
    [ error_type |-> "authentication_error",
      message |-> message,
      auth_failure_reason |-> reason,
      retry_possible |-> FALSE ]

\* create_auth_context that takes the source_id as the session of the caller
create_auth_context_with_session(user_id, creds, final_perms, auth_metadata, t) ==
    [ user_id |-> user_id,
      source_type |-> creds.source_type,
      source_id |-> creds.source_id,
      granted_permissions |-> final_perms,
      session_id |-> creds.source_id,
      authenticated_at |-> t,
      expires_at |-> creds.expires_at,
      auth_metadata |-> auth_metadata ]

\* InputAuthenticator.create_auth_context; t is datetime.utcnow()
create_auth_context(user_id, creds, final_perms, auth_metadata, t) ==
    [ user_id |-> user_id,
      source_type |-> creds.source_type,
      source_id |-> creds.source_id,
      granted_permissions |-> final_perms,
      session_id |-> NoneStr,
      authenticated_at |-> t,
      expires_at |-> creds.expires_at,
      auth_metadata |-> auth_metadata ]

\* what resolve_user_permissions returned to authenticate, << >> when the
\* call was not reached or did not succeed
resolved(fmt, ident, res, user_perms) ==
    IF fmt = "ok" /\ ident = "ok" /\ res = "ok" THEN user_perms ELSE <<>>

\* the steps of authenticate, in the order it takes them
AuthenticateSteps ==
    << "validate_credential_format", "extract_user_identity",
       "resolve_user_permissions", "compute_final_permissions", "create_auth_context" >>

\* the first n steps of authenticate as taken: all but the last ended well,
\* and the last ended as `last`
StepsTaken(n, last) ==
    [ i \in 1..n |-> [ step |-> AuthenticateSteps[i],
                       outcome |-> IF i = n THEN last ELSE "ok" ] ]

\* authenticate that goes on to identity extraction after the credential
\* format was rejected
authenticate_no_short_circuit(creds, fmt, ident, res, user_perms, t) ==
    IF fmt = "raise" THEN
        { [ awaited |-> Raised("validate_credential_format"), steps |-> StepsTaken(1, fmt) ] }
    ELSE IF fmt = "error" THEN
        { [ awaited |-> Returned(ResultError(
                            AuthenticationError("Invalid signature", "invalid_credentials"))),
            steps |-> << [ step |-> AuthenticateSteps[1], outcome |-> fmt ],
                         [ step |-> AuthenticateSteps[2], outcome |-> ident ] >> ] }
    ELSE IF ident = "raise" THEN
        { [ awaited |-> Raised("extract_user_identity"), steps |-> StepsTaken(2, ident) ] }
    ELSE IF ident = "error" THEN
        { [ awaited |-> Returned(ResultError(
                            AuthenticationError("Unknown user", "unknown_user"))),
            steps |-> StepsTaken(2, ident) ] }
    ELSE IF res = "raise" THEN
        { [ awaited |-> Raised("resolve_user_permissions"), steps |-> StepsTaken(3, res) ] }
    ELSE IF res = "error" THEN
        { [ awaited |-> Returned(ResultError(
                            AuthenticationError("Permission lookup failed",
                                                "permission_resolution_failed"))),
            steps |-> StepsTaken(3, res) ] }
    ELSE { [ awaited |-> Returned(ResultSuccess(
                            create_auth_context(user_12345, creds, final_perms,
                                                { <<"method", creds.source_type>> }, t))),
             steps |-> StepsTaken(5, "ok") ] :
             final_perms \in compute_final_permissions(creds.credential_permissions,
                                                       user_perms) }

\* InputAuthenticator.authenticate: format validation, identity extraction,
\* permission resolution, intersection, AuthContext construction, stopping
\* at the first step that fails.  fmt, ident and res say how the three
\* collaborator calls end; the value is the set of ways the call may end,
\* each with what awaiting it gives and the steps it took.
authenticate(creds, fmt, ident, res, user_perms, t) ==
    IF fmt = "raise" THEN
        { [ awaited |-> Raised("validate_credential_format"), steps |-> StepsTaken(1, fmt) ] }
    ELSE IF fmt = "error" THEN
        { [ awaited |-> Returned(ResultError(
                            AuthenticationError("Invalid signature", "invalid_credentials"))),
            steps |-> StepsTaken(1, fmt) ] }
    ELSE IF ident = "raise" THEN
        { [ awaited |-> Raised("extract_user_identity"), steps |-> StepsTaken(2, ident) ] }
    ELSE IF ident = "error" THEN
        { [ awaited |-> Returned(ResultError(
                            AuthenticationError("Unknown user", "unknown_user"))),
            steps |-> StepsTaken(2, ident) ] }
    ELSE IF res = "raise" THEN
        { [ awaited |-> Raised("resolve_user_permissions"), steps |-> StepsTaken(3, res) ] }
    ELSE IF res = "error" THEN
        { [ awaited |-> Returned(ResultError(
                            AuthenticationError("Permission lookup failed",
                                                "permission_resolution_failed"))),
            steps |-> StepsTaken(3, res) ] }
    ELSE { [ awaited |-> Returned(ResultSuccess(
                            create_auth_context(user_12345, creds, final_perms,
                                                { <<"method", creds.source_type>> }, t))),
             steps |-> StepsTaken(5, "ok") ] :
             final_perms \in compute_final_permissions(creds.credential_permissions,
                                                       user_perms) }

-----------------------------------------------------------------------------
(* Validation (validation.py) *)

ValidationError(message, stage) ==
    [ error_type |-> "validation_error",
      message |-> message,
      validation_stage |-> stage ]

\* str.lower(), on the characters the inputs use
ToLower(c) == IF c = "C" THEN "c" ELSE c
lower(s) == [ i \in 1..Len(s) |-> ToLower(s[i]) ]

\* word in text
Contains(text, word) ==
    \E i \in 1..(Len(text) - Len(word) + 1) : SubSeq(text, i, i + Len(word) - 1) = word

\* str.strip()
RECURSIVE lstrip(_)
lstrip(s) == IF s # <<>> /\ Head(s) = " " THEN lstrip(Tail(s)) ELSE s
RECURSIVE rstrip(_)
rstrip(s) == IF s # <<>> /\ s[Len(s)] = " " THEN rstrip(SubSeq(s, 1, Len(s) - 1)) ELSE s
strip(s) == rstrip(lstrip(s))

\* _detect_content_type that looks for the attachments and file keys
\* before it looks at the text
_detect_content_type_keys_first(normalized_input) ==
    IF HasKey(normalized_input, "text")
       /\ (startswith(Get(normalized_input, "text"), <<"/">>)
           \/ startswith(Get(normalized_input, "text"), <<"!">>))
    THEN "command"
    ELSE IF HasKey(normalized_input, "attachments") THEN "text_with_attachments"
    ELSE IF HasKey(normalized_input, "file") THEN "file_upload"
    ELSE IF HasKey(normalized_input, "text") THEN "text"
    ELSE "unknown"

\* InputValidator._detect_content_type
_detect_content_type(normalized_input) ==
    IF HasKey(normalized_input, "text") THEN
        LET text == Get(normalized_input, "text")
        IN  IF startswith(text, <<"/">>) \/ startswith(text, <<"!">>) THEN "command"
            ELSE IF HasKey(normalized_input, "attachments") THEN "text_with_attachments"
            ELSE "text"
    ELSE IF HasKey(normalized_input, "file") THEN "file_upload"
    ELSE "unknown"

EnglishWords == { <<"t","h","e">>, <<"a","n","d">>, <<"o","r">>, <<"b","u","t">> }
SpanishWords == { <<"e","l">>, <<"l","a">>, <<"y">>, <<"o">> }

\* InputValidator._detect_language
_detect_language(normalized_input) ==
    LET text == GetOr(normalized_input, "text", <<>>)
    IN  IF text = <<>> THEN NoneStr
        ELSE IF \E word \in EnglishWords : Contains(lower(text), word) THEN <<"en">>
        ELSE IF \E word \in SpanishWords : Contains(lower(text), word) THEN <<"es">>
        ELSE <<"en">>

\* len(key) for the keys the inputs use
KeyLen(k) == CASE k = "text" -> 4 [] k = "file" -> 4 [] k = "attachments" -> 11

\* len(json.dumps(l)) for a list of str, without its brackets
RECURSIVE JsonListLen(_)
JsonListLen(l) ==
    IF l = <<>> THEN 0
    ELSE (Len(Head(l)) + 2) + (IF Len(l) = 1 THEN 0 ELSE 2 + JsonListLen(Tail(l)))

\* len(json.dumps(v)) for the value of key k: a list of str under
\* "attachments", a str under the other keys
JsonValueLen(k, v) ==
    IF k = "attachments" THEN 1 + JsonListLen(v) + 1 ELSE Len(v) + 2

\* len(json.dumps(d)) for a dict of such values without characters to escape
RECURSIVE JsonItemsLen(_)
JsonItemsLen(items) ==
    IF items = {} THEN 0
    ELSE LET kv == CHOOSE x \in items : TRUE
         IN  (KeyLen(kv[1]) + 2) + 2 + JsonValueLen(kv[1], kv[2])
               + (IF items = { kv } THEN 0 ELSE 2 + JsonItemsLen(items \ { kv }))
JsonLen(items) == 1 + JsonItemsLen(items) + 1

\* InputValidator._calculate_input_size
_calculate_input_size(raw) ==
    IF raw.type = "str" THEN Len(raw.str) ELSE JsonLen(raw.dict)

\* create_validated_input that stamps the normalized input with the time
\* of the call
create_validated_input_stamped(raw, normalized_input, safety_metadata, validation_start_time, t, short) ==
    [ raw_input |-> raw,
      normalized_input |-> Put(normalized_input, "validated_at", <<"time", t>>),
      validation_confidence |-> GetOr(safety_metadata, "safety_score", 100),
      validation_warnings |-> GetOr(safety_metadata, "warnings", <<>>),
      detected_language |-> _detect_language(normalized_input),
      content_type |-> _detect_content_type(normalized_input),
      input_size_bytes |-> _calculate_input_size(raw),
      processing_time_ms |-> ElapsedMs(validation_start_time, t, short) ]

\* create_validated_input that keeps the normalized mapping where the raw
\* input belongs
create_validated_input_normalized_as_raw(raw, normalized_input, safety_metadata, validation_start_time, t, short) ==
    [ raw_input |-> DictInput(normalized_input),
      normalized_input |-> normalized_input,
      validation_confidence |-> GetOr(safety_metadata, "safety_score", 100),
      validation_warnings |-> GetOr(safety_metadata, "warnings", <<>>),
      detected_language |-> _detect_language(normalized_input),
      content_type |-> _detect_content_type(normalized_input),
      input_size_bytes |-> _calculate_input_size(raw),
      processing_time_ms |-> ElapsedMs(validation_start_time, t, short) ]

\* InputValidator.create_validated_input; t is time.time() on entry
create_validated_input(raw, normalized_input, safety_metadata, validation_start_time, t, short) ==
    [ raw_input |-> raw,
      normalized_input |-> normalized_input,
      validation_confidence |-> GetOr(safety_metadata, "safety_score", 100),
      validation_warnings |-> GetOr(safety_metadata, "warnings", <<>>),
      detected_language |-> _detect_language(normalized_input),
      content_type |-> _detect_content_type(normalized_input),
      input_size_bytes |-> _calculate_input_size(raw),
      processing_time_ms |-> ElapsedMs(validation_start_time, t, short) ]

\* FormatValidator.validate_format: a str becomes {"text": str}, a mapping
\* is kept as it is
validate_format(raw) ==
    IF raw.type = "str" THEN { <<"text", raw.str>> } ELSE raw.dict

\* what validate_safety may return on success; scores are in hundredths
SafetyMetadataChoices ==
    { {},
      { <<"safety_score", 95>>, <<"warnings", << <<"unusual_encoding">> >> >> } }

\* get_size_limits that allows a longer text to a caller granted
\* tools.calculator
get_size_limits_by_permission(auth_ctx) ==
    { <<"max_text_length",
        IF \E i \in 1..Len(auth_ctx.granted_permissions) :
               auth_ctx.granted_permissions[i] = tools_calculator
        THEN 10000 ELSE 10>>,
      <<"max_total_size", 1048576>>,
      <<"max_attachments", 5>> }

\* SafetyValidator.get_size_limits: the same limits for every auth context
get_size_limits(auth_ctx) ==
    { <<"max_text_length", 10000>>,
      <<"max_total_size", 1048576>>,
      <<"max_attachments", 5>> }

\* SafetyValidator.validate_safety: the size limits of the auth context are
\* enforced on the normalized input, which is only read; `safety` says how
\* the content checks end; the value is what awaiting the call gives
validate_safety(normalized_input, auth_ctx, safety, safety_metadata) ==
    LET limits == get_size_limits(auth_ctx)
        text == GetOr(normalized_input, "text", <<>>)
    IN  IF safety = "raise" THEN Raised("validate_safety")
        ELSE IF safety = "error" THEN
            Returned(ResultError(ValidationError("Unsafe content", "safety")))
        ELSE IF Len(text) > Get(limits, "max_text_length") THEN
            Returned(ResultError(ValidationError("Input exceeds max_text_length", "safety")))
        ELSE IF JsonLen(normalized_input) > Get(limits, "max_total_size") THEN
            Returned(ResultError(ValidationError("Input exceeds max_total_size", "safety")))
        ELSE Returned(ResultSuccess(safety_metadata))

\* how an awaited call ended
OutcomeOf(awaited) ==
    IF awaited.raised THEN "raise"
    ELSE IF awaited.result.is_success THEN "ok" ELSE "error"

\* one step of validate as taken: its name, what it was given and how it
\* ended
ValidateStep(step, input, outcome) ==
    [ step |-> step, input |-> input, outcome |-> outcome ]

\* validate that hands validate_safety the raw input's own mapping, where
\* the code hands it the mapping validate_format returned
validate_raw_to_safety(raw, auth_ctx, fmt, safety, safety_metadata, t0, t1, short) ==
    LET normalized_input == validate_format(raw)
        safe == validate_safety(raw.dict, auth_ctx, safety, safety_metadata)
        format_step == ValidateStep("validate_format", raw, fmt)
        safety_step == ValidateStep("validate_safety", DictInput(raw.dict), OutcomeOf(safe))
    IN  IF fmt = "raise" THEN
            [ awaited |-> Raised("validate_format"), steps |-> << format_step >> ]
        ELSE IF fmt = "error" THEN
            [ awaited |-> Returned(ResultError(
                              ValidationError("Unsupported input format", "format"))),
              steps |-> << format_step >> ]
        ELSE IF OutcomeOf(safe) # "ok" THEN
            [ awaited |-> safe, steps |-> << format_step, safety_step >> ]
        ELSE [ awaited |-> Returned(ResultSuccess(
                               create_validated_input(raw, normalized_input,
                                                      safe.result.value, t0, t1, short))),
               steps |-> << format_step, safety_step,
                            ValidateStep("create_validated_input",
                                         DictInput(normalized_input), "ok") >> ]

\* InputValidator.validate: format, then safety, then the ValidatedInput,
\* stopping at the first step that fails.  fmt says how validate_format
\* ends; the value is what awaiting the call gives and the steps it took.
validate(raw, auth_ctx, fmt, safety, safety_metadata, t0, t1, short) ==
    LET normalized_input == validate_format(raw)
        safe == validate_safety(normalized_input, auth_ctx, safety, safety_metadata)
        format_step == ValidateStep("validate_format", raw, fmt)
        safety_step == ValidateStep("validate_safety", DictInput(normalized_input),
                                    OutcomeOf(safe))
    IN  IF fmt = "raise" THEN
            [ awaited |-> Raised("validate_format"), steps |-> << format_step >> ]
        ELSE IF fmt = "error" THEN
            [ awaited |-> Returned(ResultError(
                              ValidationError("Unsupported input format", "format"))),
              steps |-> << format_step >> ]
        ELSE IF OutcomeOf(safe) # "ok" THEN
            [ awaited |-> safe, steps |-> << format_step, safety_step >> ]
        ELSE [ awaited |-> Returned(ResultSuccess(
                               create_validated_input(raw, normalized_input,
                                                      safe.result.value, t0, t1, short))),
               steps |-> << format_step, safety_step,
                            ValidateStep("create_validated_input",
                                         DictInput(normalized_input), "ok") >> ]

-----------------------------------------------------------------------------
(* Processing (processing.py) *)

ProcessingError(error_type, message, component, stage, content_type) ==
    [ error_type |-> error_type,
      message |-> message,
      component |-> component,
      processing_stage |-> stage,
      content_type |-> content_type ]

\* InputProcessor.create_processing_context; t is datetime.utcnow()
create_processing_context(validated, auth_ctx, adapter_context, t) ==
    [ auth_context |-> auth_ctx,
      validated_input |-> validated,
      pipeline_start_time |-> t,
      processing_steps |-> <<"authentication", "validation">>,
      target_event_type |-> "input.message.text",
      stream_id |-> NoneStr,
      thread_id |-> NoneStr,
      adapter_context |-> adapter_context ]

\* ContentNormalizer.extract_text_from_format; the component of the error
\* is the name of the class of the normalizer
extract_text_from_format(content_data, format_type) ==
    IF content_data.type = "str" THEN ResultSuccess(content_data.str)
    ELSE IF content_data.type = "dict" /\ HasKey(content_data.dict, "text")
    THEN ResultSuccess(Get(content_data.dict, "text"))
    ELSE ResultError(ProcessingError("text_extraction_error",
                                     "Cannot extract text from format: " \o format_type,
                                     "ContentNormalizer",
                                     "text_extraction", format_type))

\* ContentNormalizer.extract_format_metadata; the values are str
extract_format_metadata(content_data, format_type, t) ==
    { <<"original_format", <<format_type>> >>,
      <<"processed_at", <<"isoformat", t>> >>,
      <<"normalizer", <<"ContentNormalizer">> >> }

\* ContentNormalizer.normalize_content: the text of the normalized input,
\* with the format metadata
normalize_content(validated, auth_ctx, t) ==
    LET content_data == DictInput(validated.normalized_input)
        text == extract_text_from_format(content_data, validated.content_type)
    IN  IF text.is_success
        THEN ResultSuccess(
                 [ text |-> text.value,
                   original_format |-> validated.content_type,
                   metadata |-> extract_format_metadata(content_data,
                                                        validated.content_type, t) ])
        ELSE text

\* create_event_context that leaves the permissions of the event empty
create_event_context_no_permissions(processing_context, t) ==
    LET auth == processing_context.auth_context
    IN  [ user_id |-> auth.user_id,
          session_id |-> auth.user_id,
          source_type |-> auth.source_type,
          source_id |-> auth.source_id,
          permissions |-> <<>>,
          priority |-> "normal",
          metadata |-> processing_context.adapter_context ]

\* EventBuilder.create_event_context; t is datetime.utcnow().  The float
\* processing_time_ms is kept in thousandths of a millisecond.
create_event_context(processing_context, t) ==
    LET auth == processing_context.auth_context
    IN  [ user_id |-> auth.user_id,
          session_id |-> IF Truthy(auth.session_id) THEN auth.session_id
                         ELSE IF Truthy(processing_context.stream_id)
                              THEN processing_context.stream_id
                              ELSE auth.user_id,
          source_type |-> auth.source_type,
          source_id |-> auth.source_id,
          permissions |-> auth.granted_permissions,
          priority |-> "normal",
          metadata |->
              Merge({ <<"processing_pipeline", processing_context.processing_steps>>,
                      <<"authentication_method",
                        GetOr(auth.auth_metadata, "method", <<"unknown">>)>>,
                      <<"processing_time_ms",
                        <<"ms/1000", t - processing_context.pipeline_start_time>> >> },
                    processing_context.adapter_context) ]

\* determine_event_type that looks at the text as it is, without strip()
determine_event_type_unstripped(content, processing_context) ==
    LET text == lower(content.text)
    IN  IF startswith(text, <<"/">>) \/ startswith(text, <<"!">>)
        THEN "input.command.text"
        ELSE IF processing_context.validated_input.content_type = "file_upload"
        THEN "input.file.processed"
        ELSE IF HasKey(content.metadata, "attachments")
        THEN "input.message.with_attachments"
        ELSE "input.message.text"

\* EventBuilder.determine_event_type
determine_event_type(content, processing_context) ==
    LET text == lower(strip(content.text))
    IN  IF startswith(text, <<"/">>) \/ startswith(text, <<"!">>)
        THEN "input.command.text"
        ELSE IF processing_context.validated_input.content_type = "file_upload"
        THEN "input.file.processed"
        ELSE IF HasKey(content.metadata, "attachments")
        THEN "input.message.with_attachments"
        ELSE "input.message.text"

\* generate_event_ids that prefers the session id of the AuthContext to
\* the stream id of the processing context
generate_event_ids_session_first(processing_context, event_id, trace_id) ==
    [ event_id |-> event_id,
      stream_id |-> IF Truthy(processing_context.auth_context.session_id)
                    THEN processing_context.auth_context.session_id
                    ELSE IF Truthy(processing_context.stream_id)
                         THEN processing_context.stream_id
                         ELSE <<"s","t","r","e","a","m","_">> \o SubSeq(event_id, 1, 8),
      trace_id |-> trace_id ]

\* EventBuilder.generate_event_ids; event_id and trace_id are the two uuid4()
generate_event_ids(processing_context, event_id, trace_id) ==
    [ event_id |-> event_id,
      stream_id |-> IF Truthy(processing_context.stream_id)
                    THEN processing_context.stream_id
                    ELSE IF Truthy(processing_context.auth_context.session_id)
                         THEN processing_context.auth_context.session_id
                         ELSE <<"s","t","r","e","a","m","_">> \o SubSeq(event_id, 1, 8),
      trace_id |-> trace_id ]

\* EventBuilder.build_event: the JanusEvent of the content and the context
build_event(content, processing_context, event_id, trace_id, t) ==
    LET ids == generate_event_ids(processing_context, event_id, trace_id)
    IN  ResultSuccess(
            [ event_id |-> ids.event_id,
              stream_id |-> ids.stream_id,
              event_type |-> determine_event_type(content, processing_context),
              timestamp |-> t,
              trace_id |-> ids.trace_id,
              content |-> content,
              context |-> create_event_context(processing_context, t) ])

AdapterContexts == { {}, { <<"slack_channel", <<"C1234567890">> >> } }

\* one step of process as taken: its name and what awaiting it gave
ProcessStep(step, awaited) == [ step |-> step, awaited |-> awaited ]

\* process that goes on to build_event after normalize_content failed, and
\* returns what build_event gave
InputProcessor_process_builds_anyway(validated, auth_ctx, adapter_context, norm, build, event_id, trace_id, t0, t1) ==
    LET processing_context ==
            create_processing_context(validated, auth_ctx, adapter_context, t0)
        content == normalize_content(validated, auth_ctx, t1)
        normalized ==
            IF norm = "raise" THEN Raised("normalize_content")
            ELSE IF norm = "error" THEN
                Returned(ResultError(ProcessingError("processing_error",
                                                     "Cannot normalize content",
                                                     "ContentNormalizer", "normalization",
                                                     validated.content_type)))
            ELSE Returned(content)
        built ==
            IF build = "raise" THEN Raised("build_event")
            ELSE IF build = "error" THEN
                Returned(ResultError(ProcessingError("processing_error",
                                                     "Cannot build event",
                                                     "EventBuilder", "event_creation",
                                                     validated.content_type)))
            ELSE Returned(build_event(content.value, processing_context,
                                      event_id, trace_id, t1))
        context_step == ProcessStep("create_processing_context", Returned(ResultSuccess(None)))
        normalize_step == ProcessStep("normalize_content", normalized)
        build_step == ProcessStep("build_event", built)
    IN  IF OutcomeOf(normalized) # "ok" /\ build # "ok"
        THEN [ awaited |-> built, steps |-> << context_step, normalize_step, build_step >> ]
        ELSE IF OutcomeOf(normalized) # "ok"
        THEN [ awaited |-> normalized, steps |-> << context_step, normalize_step >> ]
        ELSE [ awaited |-> built, steps |-> << context_step, normalize_step, build_step >> ]

\* InputProcessor.process: the ProcessingContext, then normalize_content,
\* then build_event, stopping at the first step that fails.  norm and build
\* say how the two collaborator calls end when their own code does not
\* fail; the value is what awaiting the call gives and the steps it took.
InputProcessor_process(validated, auth_ctx, adapter_context, norm, build, event_id, trace_id, t0, t1) ==
    LET processing_context ==
            create_processing_context(validated, auth_ctx, adapter_context, t0)
        content == normalize_content(validated, auth_ctx, t1)
        normalized ==
            IF norm = "raise" THEN Raised("normalize_content")
            ELSE IF norm = "error" THEN
                Returned(ResultError(ProcessingError("processing_error",
                                                     "Cannot normalize content",
                                                     "ContentNormalizer", "normalization",
                                                     validated.content_type)))
            ELSE Returned(content)
        built ==
            IF build = "raise" THEN Raised("build_event")
            ELSE IF build = "error" THEN
                Returned(ResultError(ProcessingError("processing_error",
                                                     "Cannot build event",
                                                     "EventBuilder", "event_creation",
                                                     validated.content_type)))
            ELSE Returned(build_event(content.value, processing_context,
                                      event_id, trace_id, t1))
        context_step == ProcessStep("create_processing_context", Returned(ResultSuccess(None)))
        normalize_step == ProcessStep("normalize_content", normalized)
        build_step == ProcessStep("build_event", built)
    IN  IF OutcomeOf(normalized) # "ok"
        THEN [ awaited |-> normalized, steps |-> << context_step, normalize_step >> ]
        ELSE [ awaited |-> built, steps |-> << context_step, normalize_step, build_step >> ]

-----------------------------------------------------------------------------
(* The pipeline (pipeline.py) *)

PipelineError(message, failed_stage, pipeline_context, stage_errors) ==
    [ error_type |-> "pipeline_error",
      message |-> message,
      component |-> "InputPipeline",
      failed_stage |-> failed_stage,
      pipeline_context |-> pipeline_context,
      stage_errors |-> stage_errors ]

\* InputPipeline.create_pipeline_result; t is datetime.utcnow()
create_pipeline_result(pipeline_id, t) ==
    [ event |-> None,
      success |-> FALSE,
      error |-> None,
      total_processing_time_ms |-> 0,
      stage_timings |-> {},
      stages_completed |-> <<>>,
      processing_context |-> None,
      pipeline_id |-> pipeline_id,
      started_at |-> t,
      completed_at |-> NoTime ]

\* PipelineResult.mark_completed; t is datetime.utcnow()
mark_completed(res, t) ==
    [ res EXCEPT !.completed_at = t,
                 !.total_processing_time_ms = timedelta_ms(res.started_at, t) ]

\* the error_type of the error kind of each stage: AuthenticationError,
\* ValidationError, ProcessingError
StageErrorKind(stage) ==
    CASE stage = "authentication" -> "authentication_error"
      [] stage = "validation" -> "validation_error"
      [] stage = "processing" -> "processing_error"

\* One stage of the pipeline: the body shared by the three execute_*_stage
\* methods, which differ in the stage name and the two message prefixes.
\* `awaited` is what awaiting the collaborator gave, between the clock
\* readings stage_start and stage_end.  The value is the PipelineResult as
\* the stage leaves it and the Result the stage returns.
execute_stage(stage, failed_prefix, raised_prefix, awaited, res, stage_start, stage_end, short) ==
    LET stage_time == ElapsedMs(stage_start, stage_end, short)
        timed == [ res EXCEPT !.stage_timings = Put(@, stage, stage_time) ]
    IN  IF awaited.raised
        THEN [ result |-> timed,
               ret |-> ResultError(PipelineError(
                           <<raised_prefix, awaited.exception>>, stage,
                           { <<"pipeline_id", res.pipeline_id>>,
                             <<"exception", <<awaited.exception>> >> },
                           <<>>)) ]
        ELSE IF awaited.result.is_success
        THEN [ result |-> [ timed EXCEPT !.stages_completed = Append(@, stage) ],
               ret |-> ResultSuccess(awaited.result.value) ]
        ELSE [ result |-> timed,
               ret |-> ResultError(PipelineError(
                           <<failed_prefix, awaited.result.error.message>>, stage,
                           { <<"pipeline_id", res.pipeline_id>> },
                           << awaited.result.error >>)) ]

\* execute_authentication_stage that tests the Result object itself, which
\* is always truthy, where the code tests is_success
execute_authentication_stage_truthy(awaited, res, stage_start, stage_end, short) ==
    IF awaited.raised
    THEN execute_stage("authentication", "Authentication failed: ",
                       "Authentication stage failed: ", awaited, res, stage_start, stage_end, short)
    ELSE [ result |-> [ res EXCEPT
                          !.stage_timings =
                              Put(@, "authentication", ElapsedMs(stage_start, stage_end, short)),
                          !.stages_completed = Append(@, "authentication") ],
           ret |-> ResultSuccess(awaited.result.value) ]

\* execute_authentication_stage whose except branch names another stage
execute_authentication_stage_wrong_stage(awaited, res, stage_start, stage_end, short) ==
    LET r == execute_stage("authentication", "Authentication failed: ",
                           "Authentication stage failed: ", awaited, res,
                           stage_start, stage_end, short)
    IN  IF awaited.raised
        THEN [ r EXCEPT !.ret.error.failed_stage = "validation" ]
        ELSE r

\* InputPipeline.execute_authentication_stage
execute_authentication_stage(awaited, res, stage_start, stage_end, short) ==
    execute_stage("authentication", "Authentication failed: ",
                  "Authentication stage failed: ", awaited, res, stage_start, stage_end, short)

\* execute_validation_stage that appends to stages_completed before it
\* looks at the Result
execute_validation_stage_early_append(awaited, res, stage_start, stage_end, short) ==
    LET r == execute_stage("validation", "Validation failed: ",
                           "Validation stage failed: ", awaited, res, stage_start, stage_end, short)
    IN  IF ~awaited.raised /\ ~awaited.result.is_success
        THEN [ r EXCEPT !.result.stages_completed = Append(@, "validation") ]
        ELSE r

\* InputPipeline.execute_validation_stage
execute_validation_stage(awaited, res, stage_start, stage_end, short) ==
    execute_stage("validation", "Validation failed: ",
                  "Validation stage failed: ", awaited, res, stage_start, stage_end, short)

\* execute_processing_stage that records no timing when the processor raises
execute_processing_stage_untimed_raise(awaited, res, stage_start, stage_end, short) ==
    LET r == execute_stage("processing", "Processing failed: ",
                           "Processing stage failed: ", awaited, res, stage_start, stage_end, short)
    IN  IF awaited.raised
        THEN [ r EXCEPT !.result.stage_timings = res.stage_timings ]
        ELSE r

\* InputPipeline.execute_processing_stage
execute_processing_stage(awaited, res, stage_start, stage_end, short) ==
    execute_stage("processing", "Processing failed: ",
                  "Processing stage failed: ", awaited, res, stage_start, stage_end, short)

\* InputPipeline.process, when a stage returned an error: the error is
\* recorded, the result is finalized and the run stops
fail_run(res, pipeline_error, t) ==
    mark_completed([ res EXCEPT !.error = pipeline_error, !.success = FALSE ], t)

\* InputPipeline.process, when the last stage succeeded: the event is
\* recorded and the result is finalized
complete_run(res, event, t) ==
    mark_completed([ res EXCEPT !.event = event, !.success = TRUE ], t)

InitPipeVars ==
    /\ pc = "START"
    /\ now = 0
    /\ raw_input = None
    /\ credentials = None
    /\ result = None
    /\ auth_context = None
    /\ validated_input = None
    /\ calls = <<>>

\* process(raw_input, credentials) is called: the PipelineResult is created
StartRun(raw, creds) ==
    /\ pc = "START"
    /\ raw_input' = raw
    /\ credentials' = creds
    /\ result' = create_pipeline_result(PipelineId, now)
    /\ pc' = "AUTHENTICATING"
    /\ UNCHANGED <<now, auth_context, validated_input, calls, nonPipeVars>>

\* the authentication stage, and what process does with its Result
AuthenticationStage ==
    /\ pc = "AUTHENTICATING"
    /\ \E d \in Delays, fmt \in CollaboratorOutcomes, ident \in CollaboratorOutcomes,
          res \in CollaboratorOutcomes, user_perms \in UserPermissionChoices,
          stage_short \in BOOLEAN :
         \E authenticated \in authenticate(credentials, fmt, ident, res, user_perms, now + d) :
            LET awaited == authenticated.awaited
                stage == execute_authentication_stage(awaited, result, now, now + d, stage_short)
            IN  /\ now' = now + d
                /\ calls' = Append(calls, [ fn |-> "authenticate",
                                            credentials |-> credentials,
                                            resolved |-> resolved(fmt, ident, res, user_perms),
                                            steps |-> authenticated.steps,
                                            awaited |-> awaited ])
                /\ IF stage.ret.is_success
                   THEN /\ auth_context' = stage.ret.value
                        /\ result' = stage.result
                        /\ pc' = "VALIDATING"
                   ELSE /\ auth_context' = auth_context
                        /\ result' = fail_run(stage.result, stage.ret.error, now + d)
                        /\ pc' = "FAILED"
    /\ UNCHANGED <<raw_input, credentials, validated_input, nonPipeVars>>

\* the validation stage retried once after a failure, where process stops
ValidationStage_retry ==
    /\ pc = "VALIDATING"
    /\ \E d \in Delays, fmt \in CollaboratorOutcomes, safety \in CollaboratorOutcomes,
          safety_metadata \in SafetyMetadataChoices,
          stage_short \in BOOLEAN, validator_short \in BOOLEAN :
         LET validated == validate(raw_input, auth_context, fmt, safety, safety_metadata,
                                   now, now + d, validator_short)
             awaited == validated.awaited
             stage == execute_validation_stage(awaited, result, now, now + d, stage_short)
         IN  /\ now' = now + d
             /\ calls' = Append(calls, [ fn |-> "validate",
                                         raw_input |-> raw_input,
                                         auth_context |-> auth_context,
                                         collaborators |-> << fmt, safety, safety_metadata >>,
                                         started |-> now,
                                         ended |-> now + d,
                                         steps |-> validated.steps,
                                         awaited |-> awaited ])
             /\ IF stage.ret.is_success
                THEN /\ validated_input' = stage.ret.value
                     /\ result' = stage.result
                     /\ pc' = "PROCESSING"
                ELSE IF Len(calls) < 2
                THEN /\ validated_input' = validated_input
                     /\ result' = stage.result
                     /\ pc' = "VALIDATING"
                ELSE /\ validated_input' = validated_input
                     /\ result' = fail_run(stage.result, stage.ret.error, now + d)
                     /\ pc' = "FAILED"
    /\ UNCHANGED <<raw_input, credentials, auth_context, nonPipeVars>>

\* the validation stage, and what process does with its Result
ValidationStage ==
    /\ pc = "VALIDATING"
    /\ \E d \in Delays, fmt \in CollaboratorOutcomes, safety \in CollaboratorOutcomes,
          safety_metadata \in SafetyMetadataChoices,
          stage_short \in BOOLEAN, validator_short \in BOOLEAN :
         LET validated == validate(raw_input, auth_context, fmt, safety, safety_metadata,
                                   now, now + d, validator_short)
             awaited == validated.awaited
             stage == execute_validation_stage(awaited, result, now, now + d, stage_short)
         IN  /\ now' = now + d
             /\ calls' = Append(calls, [ fn |-> "validate",
                                         raw_input |-> raw_input,
                                         auth_context |-> auth_context,
                                         collaborators |-> << fmt, safety, safety_metadata >>,
                                         started |-> now,
                                         ended |-> now + d,
                                         steps |-> validated.steps,
                                         awaited |-> awaited ])
             /\ IF stage.ret.is_success
                THEN /\ validated_input' = stage.ret.value
                     /\ result' = stage.result
                     /\ pc' = "PROCESSING"
                ELSE /\ validated_input' = validated_input
                     /\ result' = fail_run(stage.result, stage.ret.error, now + d)
                     /\ pc' = "FAILED"
    /\ UNCHANGED <<raw_input, credentials, auth_context, nonPipeVars>>

\* the processing stage, and what process does with its Result
ProcessingStage ==
    /\ pc = "PROCESSING"
    /\ \E d \in ProcessingDelays, norm \in CollaboratorOutcomes, build \in CollaboratorOutcomes,
          adapter_context \in AdapterContexts, event_id \in UUIDs, trace_id \in UUIDs,
          stage_short \in BOOLEAN :
         LET processed == InputProcessor_process(validated_input, auth_context,
                                                 adapter_context, norm, build,
                                                 event_id, trace_id, now, now + d)
             awaited == processed.awaited
             stage == execute_processing_stage(awaited, result, now, now + d, stage_short)
         IN  /\ now' = now + d
             /\ calls' = Append(calls, [ fn |-> "process",
                                         validated_input |-> validated_input,
                                         auth_context |-> auth_context,
                                         steps |-> processed.steps,
                                         awaited |-> awaited ])
             /\ IF stage.ret.is_success
                THEN /\ result' = complete_run(stage.result, stage.ret.value, now + d)
                     /\ pc' = "COMPLETE"
                ELSE /\ result' = fail_run(stage.result, stage.ret.error, now + d)
                     /\ pc' = "FAILED"
    /\ UNCHANGED <<raw_input, credentials, auth_context, validated_input, nonPipeVars>>

-----------------------------------------------------------------------------
(* The capability registry (capabilities.py, CapabilityRegistry) *)

\* the providers that register, and the names of the capabilities each one
\* gives (CapabilityProvider.get_capabilities)
slack_adapter == <<"slack_adapter">>
api_adapter == <<"api_adapter">>
webhook_adapter == <<"webhook_adapter">>

ProviderIds == { slack_adapter, api_adapter, webhook_adapter }

ProviderCapabilities(provider_id) ==
    CASE provider_id = slack_adapter -> <<"text_processing", "file_attachments", "threading">>
      [] provider_id = api_adapter -> <<"text_processing", "file_attachments">>
      [] provider_id = webhook_adapter -> <<"text_processing", "webhook_signatures">>

\* the capability names in use (StandardCapabilities); no provider gives
\* "encryption"
CapabilityNames ==
    { "text_processing", "file_attachments", "threading", "webhook_signatures", "encryption" }

\* CapabilityProvider.supports_capability
supports_capability(provider_id, capability_name) ==
    \E i \in DOMAIN ProviderCapabilities(provider_id) :
        ProviderCapabilities(provider_id)[i] = capability_name

\* the elements of a list
Elements(list) == { list[i] : i \in DOMAIN list }

\* list with every occurrence of x removed
Without(list, x) == SelectSeq(list, LAMBDA y : y # x)

\* an Optional[List[str]] that is given
ListOf(list) == [ list |-> list ]

\* the tasks that use the registry: pipeline runs that look providers up,
\* and register or unregister them
TaskIds == { "task_1", "task_2" }

\* the orders in which iterating a set of provider ids may give them
SetOrders ==
    { order \in [ 1..Cardinality(ProviderIds) -> ProviderIds ] :
        \A i, j \in DOMAIN order : i # j => order[i] # order[j] }

\* the first of the ids in ids that iterating the set gives
FirstIn(order, ids) ==
    order[CHOOSE i \in DOMAIN order :
              /\ order[i] \in ids
              /\ \A j \in 1..(i - 1) : order[j] \notin ids]

\* CapabilityRegistry.find_providers_with_capability: the providers indexed
\* under the capability, in registration order
find_providers_with_capability(index, capability_name) ==
    IF capability_name \in DOMAIN index THEN index[capability_name] ELSE <<>>

\* CapabilityRegistry.get_system_capabilities: the capabilities that some
\* provider gives, each with its providers
get_system_capabilities(index) ==
    { << c, index[c] >> : c \in { n \in DOMAIN index : index[n] # <<>> } }

\* the loop of find_best_provider_for_requirements: candidate_providers
\* after the capabilities in required, starting from candidates
RECURSIVE CandidateProviders(_, _, _)
CandidateProviders(index, required, candidates) ==
    IF required = <<>> THEN candidates
    ELSE LET providers_with_capability ==
                 Elements(find_providers_with_capability(index, Head(required)))
         IN  CandidateProviders(index, Tail(required),
                                IF candidates = None
                                THEN ListOf(providers_with_capability)
                                ELSE ListOf(candidates.list \cap providers_with_capability))

\* find_best_provider_for_requirements that starts from every registered
\* provider, so that an empty list of requirements leaves them all
find_best_provider_for_requirements_from_all(index, required_capabilities, preferred_providers, order) ==
    LET all == UNION { Elements(index[c]) : c \in DOMAIN index }
        candidate_providers == CandidateProviders(index, required_capabilities, ListOf(all))
    IN  IF candidate_providers.list = {}
        THEN NoneStr
        ELSE LET preferred_candidates ==
                     IF preferred_providers # None /\ preferred_providers.list # <<>>
                     THEN candidate_providers.list \cap Elements(preferred_providers.list)
                     ELSE {}
             IN  IF preferred_candidates # {}
                 THEN FirstIn(order, preferred_candidates)
                 ELSE FirstIn(order, candidate_providers.list)

\* CapabilityRegistry.find_best_provider_for_requirements; order is the
\* order in which list(candidate_providers) gives the set's elements
find_best_provider_for_requirements(index, required_capabilities, preferred_providers, order) ==
    LET candidate_providers == CandidateProviders(index, required_capabilities, None)
    IN  IF candidate_providers = None \/ candidate_providers.list = {}
        THEN NoneStr
        ELSE LET preferred_candidates ==
                     IF preferred_providers # None /\ preferred_providers.list # <<>>
                     THEN candidate_providers.list \cap Elements(preferred_providers.list)
                     ELSE {}
             IN  IF preferred_candidates # {}
                 THEN FirstIn(order, preferred_candidates)
                 ELSE FirstIn(order, candidate_providers.list)

\* the capability lists a caller may require
RequiredChoices ==
    { <<>>, <<"text_processing">>, <<"text_processing", "file_attachments">>,
      <<"webhook_signatures", "threading">>, <<"encryption">> }

\* the preferences a caller may give
PreferredChoices ==
    { None, ListOf(<<>>), ListOf(<<api_adapter>>), ListOf(<<webhook_adapter, api_adapter>>) }

\* the tasks inside a registration or an unregistration
Writers == { task \in TaskIds : writing[task] # None }

\* the readers-writer discipline of the abstract methods: a task may begin
\* to read when no task writes, and begin to write when no task reads or
\* writes
MayRead(task) == Writers = {}

MayWrite(task) == Writers = {} /\ reading = {}

Idle(task) == writing[task] = None /\ task \notin reading

\* register_provider begins: the provider is recorded; its capabilities
\* are indexed one by one in the steps that follow
RegisterBegin(task, provider_id) ==
    /\ Idle(task)
    /\ MayWrite(task)
    /\ provider_id \notin Elements(providers)
    /\ providers' = Append(providers, provider_id)
    /\ writing' = [ writing EXCEPT ![task] =
                      [ op |-> "register_provider", provider_id |-> provider_id,
                        todo |-> ProviderCapabilities(provider_id) ] ]
    /\ lookup' = None
    /\ UNCHANGED <<by_capability, reading, nonRegistryVars>>

\* unregister_provider begins: the provider is struck off; its capabilities
\* are taken out of the index one by one in the steps that follow
UnregisterBegin(task, provider_id) ==
    /\ Idle(task)
    /\ MayWrite(task)
    /\ provider_id \in Elements(providers)
    /\ providers' = Without(providers, provider_id)
    /\ writing' = [ writing EXCEPT ![task] =
                      [ op |-> "unregister_provider", provider_id |-> provider_id,
                        todo |-> ProviderCapabilities(provider_id) ] ]
    /\ lookup' = None
    /\ UNCHANGED <<by_capability, reading, nonRegistryVars>>

\* one capability of the provider is put into, or taken out of, the index
WriteStep(task) ==
    /\ writing[task] # None
    /\ writing[task].todo # <<>>
    /\ LET w == writing[task]
           c == Head(w.todo)
       IN  /\ by_capability' =
                 [ by_capability EXCEPT ![c] =
                     IF w.op = "register_provider"
                     THEN Append(Without(@, w.provider_id), w.provider_id)
                     ELSE Without(@, w.provider_id) ]
           /\ writing' = [ writing EXCEPT ![task].todo = Tail(w.todo) ]
    /\ lookup' = None
    /\ UNCHANGED <<providers, reading, nonRegistryVars>>

\* register_provider or unregister_provider returns
WriteEnd(task) ==
    /\ writing[task] # None
    /\ writing[task].todo = <<>>
    /\ writing' = [ writing EXCEPT ![task] = None ]
    /\ UNCHANGED <<providers, by_capability, reading, lookup, nonRegistryVars>>

\* a task takes the registry for lookups with the abstract methods
LookupBegin(task) ==
    /\ Idle(task)
    /\ MayRead(task)
    /\ reading' = reading \cup { task }
    /\ UNCHANGED <<providers, by_capability, writing, lookup, nonRegistryVars>>

\* find_providers_with_capability is called
FindProvidersWithCapability(task, capability_name) ==
    /\ task \in reading
    /\ lookup' = [ fn |-> "find_providers_with_capability", task |-> task,
                   capability_name |-> capability_name,
                   value |-> find_providers_with_capability(by_capability, capability_name) ]
    /\ UNCHANGED <<providers, by_capability, writing, reading, nonRegistryVars>>

\* get_system_capabilities is called
GetSystemCapabilities(task) ==
    /\ task \in reading
    /\ lookup' = [ fn |-> "get_system_capabilities", task |-> task,
                   value |-> get_system_capabilities(by_capability) ]
    /\ UNCHANGED <<providers, by_capability, writing, reading, nonRegistryVars>>

\* find_best_provider_for_requirements is called: a plain def that takes
\* no lock and has no await, so it runs from its first line to its return
\* on the registry as it is, whatever other tasks are suspended in; only a
\* task that is itself suspended inside a registration cannot call it
FindBestProviderForRequirements(task, required, preferred, order) ==
    /\ writing[task] = None
    /\ lookup' = [ fn |-> "find_best_provider_for_requirements", task |-> task,
                   required_capabilities |-> required,
                   preferred_providers |-> preferred,
                   value |-> find_best_provider_for_requirements(
                                 by_capability, required, preferred, order) ]
    /\ UNCHANGED <<providers, by_capability, writing, reading, nonRegistryVars>>

\* the task has what it looked up and lets the registry go
LookupEnd(task) ==
    /\ task \in reading
    /\ reading' = reading \ { task }
    /\ lookup' = IF lookup # None /\ lookup.task = task THEN None ELSE lookup
    /\ UNCHANGED <<providers, by_capability, writing, nonRegistryVars>>

NextRegistry ==
    \/ \E task \in TaskIds, provider_id \in ProviderIds : RegisterBegin(task, provider_id)
    \/ \E task \in TaskIds, provider_id \in ProviderIds : UnregisterBegin(task, provider_id)
    \/ \E task \in TaskIds : WriteStep(task)
    \/ \E task \in TaskIds : WriteEnd(task)
    \/ \E task \in TaskIds : LookupBegin(task)
    \/ \E task \in TaskIds, capability_name \in CapabilityNames :
           FindProvidersWithCapability(task, capability_name)
    \/ \E task \in TaskIds : GetSystemCapabilities(task)
    \/ \E task \in TaskIds, required \in RequiredChoices, preferred \in PreferredChoices,
          order \in SetOrders :
           FindBestProviderForRequirements(task, required, preferred, order)
    \/ \E task \in TaskIds : LookupEnd(task)

\* no provider is registered, no task uses the registry
InitRegistryVars ==
    /\ providers = <<>>
    /\ by_capability = [ c \in CapabilityNames |-> <<>> ]
    /\ writing = [ task \in TaskIds |-> None ]
    /\ reading = {}
    /\ lookup = None

-----------------------------------------------------------------------------
(* Two runs of InputPipeline.process on one pipeline object (pipeline.py) *)

RunIds == { 1, 2 }

\* the arguments of the two calls of process, and what uuid4() gives each
RunRawInput(r) ==
    IF r = 1 THEN DictInput({ <<"text", calculate_text>> }) ELSE StrInput(hello_text)

RunCredentials(r) ==
    IF r = 1 THEN SourceCredentials(<<"api">>, <<"api_key_789">>, ExampleCredentialPermissions)
    ELSE SourceCredentials(<<"webhook">>, <<"webhook_endpoint_456">>, << chat >>)

RunPipelineId(r) == IF r = 1 THEN <<"pipeline_1">> ELSE <<"pipeline_2">>

RunEventId(r) ==
    IF r = 1 THEN <<"0","0","0","0","0","0","0","1","-","a">>
    ELSE <<"0","0","0","0","0","0","0","1","-","b">>

\* the time that passes while a run awaits a collaborator: under a
\* millisecond, so that no stage of the two runs takes a whole number of
\* milliseconds and the float arithmetic of its duration has one outcome
RunDelays == { 600 }

\* PipelineResult(...) makes a new object: its address is one no object has
NewObject_shared(heap) == 1

NewObject(heap) == Len(heap) + 1

\* the object at the address is written
Store(heap, address, object) ==
    IF address \in DOMAIN heap THEN [ heap EXCEPT ![address] = object ]
    ELSE Append(heap, object)

\* the stage a run is in, by its position
StageAt(position) ==
    CASE position = "AUTHENTICATING" -> "authentication"
      [] position = "VALIDATING" -> "validation"
      [] position = "PROCESSING" -> "processing"

\* what awaiting the collaborator of the stage may give the run, the first
\* call of the collaborator ending as outcome says
RunAwaited(r, run, outcome, t0, t1, short) ==
    CASE run.pc = "AUTHENTICATING" ->
             { a.awaited : a \in authenticate(RunCredentials(r), outcome, "ok", "ok",
                                              << chat, tools_calculator >>, t1) }
      [] run.pc = "VALIDATING" ->
             { validate(RunRawInput(r), run.auth_context, outcome, "ok", {}, t0, t1, short).awaited }
      [] run.pc = "PROCESSING" ->
             { InputProcessor_process(run.validated_input, run.auth_context, {}, outcome,
                                      "ok", RunEventId(r), RunEventId(r), t0, t1).awaited }

\* the execute_*_stage method of the stage the run is in
RunStage(position, awaited, res, stage_start, stage_end, short) ==
    CASE position = "AUTHENTICATING" ->
             execute_authentication_stage(awaited, res, stage_start, stage_end, short)
      [] position = "VALIDATING" ->
             execute_validation_stage(awaited, res, stage_start, stage_end, short)
      [] position = "PROCESSING" ->
             execute_processing_stage(awaited, res, stage_start, stage_end, short)

\* what process does with the PipelineResult once the stage has returned
AfterStage(position, stage, t) ==
    IF ~stage.ret.is_success THEN fail_run(stage.result, stage.ret.error, t)
    ELSE IF position = "PROCESSING" THEN complete_run(stage.result, stage.ret.value, t)
    ELSE stage.result

\* where process goes once the stage has returned
PositionAfter(position, ret) ==
    IF ~ret.is_success THEN "FAILED"
    ELSE CASE position = "AUTHENTICATING" -> "VALIDATING"
           [] position = "VALIDATING" -> "PROCESSING"
           [] position = "PROCESSING" -> "COMPLETE"

\* process is called for run r: its PipelineResult is created
RunStart(r) ==
    /\ runs[r].pc = "START"
    /\ LET address == NewObject(results)
           created == create_pipeline_result(RunPipelineId(r), clock)
       IN  /\ results' = Store(results, address, created)
           /\ runs' = [ runs EXCEPT ![r].pc = "AUTHENTICATING",
                                    ![r].result = address,
                                    ![r].alone = created ]
    /\ UNCHANGED <<clock, nonRunVars>>

\* run r enters its next stage: the stage reads the clock and awaits its
\* collaborator
RunStageBegin(r) ==
    /\ runs[r].pc \in { "AUTHENTICATING", "VALIDATING", "PROCESSING" }
    /\ runs[r].stage_start = NoTime
    /\ runs' = [ runs EXCEPT ![r].stage_start = clock ]
    /\ UNCHANGED <<results, clock, nonRunVars>>

\* the collaborator of run r returns or raises: the stage writes to the
\* PipelineResult of the run, and process goes on or stops
RunStageEnd(r) ==
    /\ runs[r].pc \in { "AUTHENTICATING", "VALIDATING", "PROCESSING" }
    /\ runs[r].stage_start # NoTime
    /\ \E d \in RunDelays, outcome \in CollaboratorOutcomes,
          stage_short \in BOOLEAN, validator_short \in BOOLEAN :
         \E awaited \in RunAwaited(r, runs[r], outcome, runs[r].stage_start, clock + d,
                                   validator_short) :
            LET run == runs[r]
                stage == RunStage(run.pc, awaited, results[run.result],
                                  run.stage_start, clock + d, stage_short)
                own == RunStage(run.pc, awaited, run.alone, run.stage_start, clock + d, stage_short)
            IN  /\ clock' = clock + d
                /\ results' = Store(results, run.result,
                                    AfterStage(run.pc, stage, clock + d))
                /\ runs' = [ runs EXCEPT
                               ![r].pc = PositionAfter(run.pc, stage.ret),
                               ![r].stage_start = NoTime,
                               ![r].auth_context =
                                   IF run.pc = "AUTHENTICATING" /\ stage.ret.is_success
                                   THEN stage.ret.value ELSE @,
                               ![r].validated_input =
                                   IF run.pc = "VALIDATING" /\ stage.ret.is_success
                                   THEN stage.ret.value ELSE @,
                               ![r].alone = AfterStage(run.pc, own, clock + d) ]
    /\ UNCHANGED nonRunVars

NextRuns ==
    \/ \E r \in RunIds : RunStart(r)
    \/ \E r \in RunIds : RunStageBegin(r)
    \/ \E r \in RunIds : RunStageEnd(r)

\* no run has begun
InitRunVars ==
    /\ results = <<>>
    /\ runs = [ r \in RunIds |->
                  [ pc |-> "START", result |-> 0, stage_start |-> NoTime,
                    auth_context |-> None, validated_input |-> None, alone |-> None ] ]
    /\ clock = 0

-----------------------------------------------------------------------------
(***************************************************************************)
(* The MVP server (src/janus-mvp/janus_mvp): the /chat and /webhook        *)
(* endpoints, the in-memory event bus, the memory store and the            *)
(* orchestrator.  The endpoints are coroutines on one event loop: a        *)
(* request runs without interruption up to an await that suspends it (the  *)
(* execution of a tool, the generation by the AI adapter), and the other   *)
(* requests run meanwhile.                                                 *)
(*                                                                         *)
(* A text the code inspects is a sequence of one-character strings; a text *)
(* the code only passes on (an identifier, a fixed reply) is one piece.    *)
(***************************************************************************)

\* the requests the server receives
MaxRequests == 2
RequestIds == 1..MaxRequests

\* message texts of the requests
hi_message == <<"h", "i">>
time_message == <<"t", "i", "m", "e">>
sum_message == <<"1", "+", "1">>
quotient_message == <<"1", "/", "0">>
remember_message == <<"r", "e", "m", "e", "m", "b", "e", "r", " ", "x">>
recall_message == <<"w", "h", "a", "t", " ", "d", "o", " ", "y", "o", "u", " ", "r", "e", "m", "e", "m", "b", "e", "r">>
other_message == <<"o", "k">>
Messages == { hi_message, time_message, sum_message, quotient_message, remember_message, recall_message, other_message }

\* user_id and session_id of a request: absent, empty, or an identifier
alice == <<"alice">>
session_1 == <<"session_1">>
\* the user_id and the session_id of the requests
Callers == { << NoneStr, NoneStr >>, << <<>>, session_1 >>, << alice, NoneStr >>, << alice, session_1 >> }

\* new_id(): the n-th identifier handed out, each different from the others
new_id(n) == << ToString(n) >>

\* the server's state as one value, so that the calls of a handler compose
ServerState == [ subscribers |-> subscribers, event_history |-> event_history, items |-> _items, requests |-> requests, next_id |-> next_id, server_clock |-> server_clock ]

\* the server's next state is sv
Becomes(sv) ==
    /\ subscribers' = sv.subscribers
    /\ event_history' = sv.event_history
    /\ _items' = sv.items
    /\ requests' = sv.requests
    /\ next_id' = sv.next_id
    /\ server_clock' = sv.server_clock

\* the handlers: the orchestrator's _on_input, and the capture_response
\* closure of a request
on_input_handler == [ handler |-> "_on_input", request |-> 0 ]
capture_response(r) == [ handler |-> "capture_response", request |-> r ]

\* InMemoryEventBus.subscribe
subscribe(sv, event_type, handler) ==
    [ sv EXCEPT !.subscribers[event_type] = Append(@, handler) ]

\* InMemoryStore.add of MemoryItem(id=new_id(), ..., timestamp=utc_now())
memory_add(sv, user_id, session_id, text) ==
    [ sv EXCEPT !.items = Append(@, [ id |-> new_id(sv.next_id), user_id |-> user_id, session_id |-> session_id, text |-> text, timestamp |-> sv.server_clock ]),
                !.next_id = @ + 1,
                !.server_clock = @ + 1 ]

\* InMemoryStore.list_for_user
RECURSIVE list_for_user(_, _)
list_for_user(store, user_id) ==
    IF store = <<>> THEN <<>>
    ELSE IF Head(store).user_id = user_id THEN <<Head(store)>> \o list_for_user(Tail(store), user_id)
    ELSE list_for_user(Tail(store), user_id)

\* [i for i in self._items if i.session_id == session_id]
RECURSIVE list_for_session(_, _)
list_for_session(store, session_id) ==
    IF store = <<>> THEN <<>>
    ELSE IF Head(store).session_id = session_id THEN <<Head(store)>> \o list_for_session(Tail(store), session_id)
    ELSE list_for_session(Tail(store), session_id)

\* list.sort(key=timestamp, reverse=True): a stable insertion, an item
\* going behind the items whose timestamp is not smaller
RECURSIVE InsertByTimestampReversed(_, _)
InsertByTimestampReversed(ordered, item) ==
    IF ordered = <<>> THEN << item >>
    ELSE IF Head(ordered).timestamp >= item.timestamp
         THEN <<Head(ordered)>> \o InsertByTimestampReversed(Tail(ordered), item)
         ELSE <<item>> \o ordered
RECURSIVE SortByTimestampReversed(_)
SortByTimestampReversed(list) ==
    IF list = <<>> THEN <<>>
    ELSE InsertByTimestampReversed(SortByTimestampReversed(SubSeq(list, 1, Len(list) - 1)), list[Len(list)])

\* list[:limit]
FirstN(list, limit) == SubSeq(list, 1, IF Len(list) < limit THEN Len(list) ELSE limit)
\* list[-n:]
LastN(list, n) == SubSeq(list, IF Len(list) < n THEN 1 ELSE Len(list) - n + 1, Len(list))
\* reversed(list)
Reversed(list) == [ i \in 1..Len(list) |-> list[Len(list) - i + 1] ]

\* InMemoryStore.recent_for_session
recent_for_session(store, session_id, limit) ==
    FirstN(SortByTimestampReversed(list_for_session(store, session_id)), limit)

\* JanusEvent(event_id=new_id(), stream_id=session_id or user_id or new_id(),
\* timestamp=utc_now(), trace_id=new_id(), ...) of the two adapters: the
\* event, and the server after the identifiers and the time were taken
input_event(sv, text, original_format, user_id, session_id, source) ==
    LET fresh_stream == ~Truthy(session_id) /\ ~Truthy(user_id)
        taken == IF fresh_stream THEN 3 ELSE 2
    IN [ event |-> [ event_id |-> new_id(sv.next_id),
                     stream_id |-> IF Truthy(session_id) THEN session_id
                                   ELSE IF Truthy(user_id) THEN user_id
                                   ELSE new_id(sv.next_id + 1),
                     event_type |-> "input.message.received",
                     timestamp |-> sv.server_clock,
                     trace_id |-> new_id(sv.next_id + taken - 1),
                     content |-> [ text |-> text, original_format |-> original_format ],
                     context |-> [ user_id |-> user_id, session_id |-> session_id, source |-> source ] ],
         sv |-> [ sv EXCEPT !.next_id = @ + taken, !.server_clock = @ + 1 ] ]

\* Result.ok(value), Result.fail(error), and a call that raises
Ok(value, sv) == [ is_success |-> TRUE, raised |-> FALSE, value |-> value, error |-> NoneStr, sv |-> sv ]
Fail(error, sv) == [ is_success |-> FALSE, raised |-> FALSE, value |-> None, error |-> error, sv |-> sv ]
Raises(error, sv) == [ is_success |-> FALSE, raised |-> TRUE, value |-> None, error |-> error, sv |-> sv ]

\* APIInputAdapter.process_input
APIInputAdapter_process_input(sv, message, user_id, session_id) ==
    LET made == input_event(sv, message, <<"text">>, user_id, session_id, "api")
    IN Ok(made.event, made.sv)

\* hmac.new(secret, payload, sha256).hexdigest(): a text of ASCII
\* characters, different for different payloads
hexdigest(payload) == <<"sha256(">> \o payload \o <<")">>

\* a signature with a character outside ASCII (a header value is decoded as latin-1)
non_ascii_signature == <<"U+00E9">>
IsAscii(s) == \A i \in 1..Len(s) : s[i] # "U+00E9"

\* the X-Signature header of a request with this payload: absent, empty,
\* the digest of the payload, the digest of another payload, not ASCII
Signatures(payload) == { NoneStr, <<>>, hexdigest(payload), hexdigest(<<"x">> \o payload), non_ascii_signature }

\* WebhookAdapter._verify: hmac.compare_digest raises TypeError on a str
\* that is not ASCII
_verify(payload, signature) ==
    IF ~Truthy(signature) THEN [ raised |-> FALSE, value |-> FALSE ]
    ELSE IF ~IsAscii(signature) THEN [ raised |-> TRUE, value |-> FALSE ]
    ELSE [ raised |-> FALSE, value |-> hexdigest(payload) = signature ]

\* WebhookAdapter.process_input
WebhookAdapter_process_input(sv, payload, signature, user_id, session_id) ==
    LET verified == _verify(payload, signature)
        made == input_event(sv, payload, <<"webhook">>, user_id, session_id, "webhook")
    IN IF verified.raised THEN Raises(<<"TypeError">>, sv)
       ELSE IF ~verified.value THEN Fail(<<"invalid_signature">>, sv)
       ELSE Ok(made.event, made.sv)

\* the texts _generate_response looks for
GreetingWords == { <<"h", "e", "l", "l", "o">>, <<"h", "i">>, <<"h", "e", "y">> }
OperatorWords == { <<"a", "d", "d">>, <<"s", "u", "m">>, <<"p", "l", "u", "s">>, <<"+">>, <<"-">>, <<"*">>, <<"/">> }
user_prefix == <<"U", "s", "e", "r", ":", " ">>
assistant_prefix == <<"A", "s", "s", "i", "s", "t", "a", "n", "t", ":", " ">>
fact_prefix == <<"F", "a", "c", "t", ":", " ">>

\* a float with a whole value: its sign, which a zero has too, and its
\* magnitude
WholeFloat(neg, mag) == [ neg |-> neg, mag |-> mag ]

\* [float(n) for n in re.findall(r"-?\d+(?:\.\d+)?", text)], for a text
\* without a decimal point; float("-0") is -0.0
Digits == << "0", "1", "2", "3", "4", "5", "6", "7", "8", "9" >>
IsDigit(c) == \E d \in 1..10 : Digits[d] = c
DigitValue(c) == (CHOOSE d \in 1..10 : Digits[d] = c) - 1
RECURSIVE DigitsEnd(_, _)
DigitsEnd(text, i) == IF i + 1 <= Len(text) /\ IsDigit(text[i + 1]) THEN DigitsEnd(text, i + 1) ELSE i
RECURSIVE NumberValue(_, _, _)
NumberValue(text, i, j) == IF j < i THEN 0 ELSE 10 * NumberValue(text, i, j - 1) + DigitValue(text[j])
RECURSIVE findall_numbers(_, _)
findall_numbers(text, i) ==
    IF i > Len(text) THEN <<>>
    ELSE IF text[i] = "-" /\ i + 1 <= Len(text) /\ IsDigit(text[i + 1])
         THEN << WholeFloat(TRUE, NumberValue(text, i + 1, DigitsEnd(text, i + 1))) >> \o findall_numbers(text, DigitsEnd(text, i + 1) + 1)
    ELSE IF IsDigit(text[i])
         THEN << WholeFloat(FALSE, NumberValue(text, i, DigitsEnd(text, i))) >> \o findall_numbers(text, DigitsEnd(text, i) + 1)
    ELSE findall_numbers(text, i + 1)

\* the value of a float with a whole value
Signed(x) == IF x.neg THEN 0 - x.mag ELSE x.mag

RECURSIVE Gcd(_, _)
Gcd(m, n) == IF n = 0 THEN m ELSE Gcd(n, m % n)

\* n without its factors k
RECURSIVE StripFactor(_, _)
StripFactor(n, k) == IF n % k = 0 THEN StripFactor(n \div k, k) ELSE n

\* the result of _calc as a signed fraction in lowest terms.  A sum that
\* is zero is -0.0 only when both terms are -0.0; a product and a quotient
\* are negative, zero included, when one operand is.
calc_result(op, a, b) ==
    LET minus_b == [ b EXCEPT !.neg = ~@ ]
        sum(x, y) == [ neg |-> IF Signed(x) + Signed(y) = 0 THEN x.neg /\ y.neg
                               ELSE Signed(x) + Signed(y) < 0,
                       num |-> IF Signed(x) + Signed(y) < 0 THEN 0 - (Signed(x) + Signed(y))
                               ELSE Signed(x) + Signed(y),
                       den |-> 1 ]
    IN  CASE op = "add" -> sum(a, b)
          [] op = "sub" -> sum(a, minus_b)
          [] op = "mul" -> [ neg |-> a.neg # b.neg, num |-> a.mag * b.mag, den |-> 1 ]
          [] op = "div" -> [ neg |-> a.neg # b.neg,
                             num |-> a.mag \div Gcd(a.mag, b.mag),
                             den |-> b.mag \div Gcd(a.mag, b.mag) ]

\* the digits after the decimal point of rem / den, rem < den, a
\* terminating decimal
RECURSIVE FractionDigits(_, _)
FractionDigits(rem, den) ==
    IF rem = 0 THEN ""
    ELSE ToString((10 * rem) \div den) \o FractionDigits((10 * rem) % den, den)

\* how many digits FractionDigits(rem, den) has
RECURSIVE FractionLength(_, _)
FractionLength(rem, den) ==
    IF rem = 0 THEN 0 ELSE 1 + FractionLength((10 * rem) % den, den)

\* how many digits the whole number n has
RECURSIVE DigitCount(_)
DigitCount(n) == IF n < 10 THEN 1 ELSE 1 + DigitCount(n \div 10)

\* str(x) of the float nearest to the fraction x: a whole value is written
\* with ".0", a terminating decimal of at most 15 digits that is not under
\* 0.0001 digit by digit, which is the shortest text that reads back as
\* the same float.  The digits of another quotient (1/3 is
\* 0.3333333333333333) are those of its float and are not computed: its
\* text is kept as the quotient itself.
FloatText(x) ==
    LET sign == IF x.neg THEN "-" ELSE ""
        whole == x.num \div x.den
        rem == x.num % x.den
    IN  IF rem = 0 THEN sign \o ToString(whole) \o ".0"
        ELSE IF StripFactor(StripFactor(x.den, 2), 5) = 1 /\ x.den <= 10000
                /\ DigitCount(whole) + FractionLength(rem, x.den) <= 15
        THEN sign \o ToString(whole) \o "." \o FractionDigits(rem, x.den)
        ELSE sign \o "float(" \o ToString(x.num) \o "/" \o ToString(x.den) \o ")"

\* str(x) of a float with a whole value
WholeFloatText(x) == FloatText([ neg |-> x.neg, num |-> x.mag, den |-> 1 ])

TwoDigits(n) == IF n < 10 THEN "0" \o ToString(n) ELSE ToString(n)

\* strftime("%H:%M:%S") of the clock reading, seconds since 2026-01-01
\* 00:00:00 UTC, within that day
ClockText(seconds) ==
    TwoDigits(seconds \div 3600) \o ":" \o TwoDigits((seconds % 3600) \div 60)
        \o ":" \o TwoDigits(seconds % 60)

\* the operation _generate_response reads from the text
operation_of(t) ==
    IF Contains(t, <<"d", "i", "v">>) \/ Contains(t, <<"d", "i", "v", "i", "d", "e">>) \/ Contains(t, <<"/">>) THEN "div"
    ELSE IF Contains(t, <<"m", "u", "l">>) \/ Contains(t, <<"t", "i", "m", "e", "s">>) \/ Contains(t, <<"*">>) THEN "mul"
    ELSE IF Contains(t, <<"s", "u", "b">>) \/ Contains(t, <<"m", "i", "n", "u", "s">>) \/ Contains(t, <<"-">>) THEN "sub"
    ELSE "add"

\* SimpleTool.execute of the time tool and of the calculator: the
\* ToolResult, its result as str() writes it, an exception of the function
\* caught.  The server clock counts seconds from 2026-01-01 00:00:00 UTC,
\* whose epoch is 1767225600, and _time reads it.
tool_execute(sv, tool, parameters) ==
    IF tool = "time"
    THEN [ success |-> TRUE,
           result |-> << "{'current_time': '2026-01-01 ", ClockText(sv.server_clock), " UTC', 'iso': '2026-01-01T",
                         ClockText(sv.server_clock), "+00:00', 'epoch': ",
                         ToString(1767225600 + sv.server_clock), ", 'timezone': 'UTC'}" >>,
           error |-> NoneStr,
           sv |-> [ sv EXCEPT !.server_clock = @ + 1 ] ]
    ELSE LET a == parameters.a
             b == parameters.b
         IN IF parameters.operation = "div" /\ b.mag = 0
            THEN [ success |-> FALSE, result |-> NoneStr, error |-> << "Division by zero" >>, sv |-> sv ]
            ELSE [ success |-> TRUE,
                   result |-> << "{'operation': '", parameters.operation, "', 'a': ", WholeFloatText(a), ", 'b': ", WholeFloatText(b),
                                 ", 'result': ", FloatText(calc_result(parameters.operation, a, b)), "}" >>,
                   error |-> NoneStr, sv |-> sv ]

\* the AIMsg list of the AI fallback: the system message, the session's
\* recent items oldest first, the text of the request
system_message == [ role |-> "system", content |-> << "You are Janus, a helpful AI teammate. Be concise and actionable." >> ]
RECURSIVE memory_messages(_)
memory_messages(recent) ==
    IF recent = <<>> THEN <<>>
    ELSE LET m == Head(recent)
         IN (IF startswith(m.text, user_prefix)
                THEN << [ role |-> "user", content |-> SubSeq(m.text, Len(user_prefix) + 1, Len(m.text)) ] >>
             ELSE IF startswith(m.text, assistant_prefix)
                THEN << [ role |-> "assistant", content |-> SubSeq(m.text, Len(assistant_prefix) + 1, Len(m.text)) ] >>
             ELSE <<>>) \o memory_messages(Tail(recent))
SessionLimit == 6
ai_messages(store, text, event) ==
    LET session_id == IF Truthy(event.context.session_id) THEN event.context.session_id ELSE <<>>
        recent == recent_for_session(store, session_id, SessionLimit)
    IN << system_message >> \o memory_messages(Reversed(recent)) \o << [ role |-> "user", content |-> text ] >>

\* "\n".join(texts)
RECURSIVE join_lines(_)
join_lines(texts) ==
    IF texts = <<>> THEN <<>>
    ELSE IF Len(texts) = 1 THEN texts[1]
    ELSE texts[1] \o << "\n" >> \o join_lines(Tail(texts))

\* the items the reply to "what do you remember" lists
RecallLimit == 5
recalled_texts(store, event) ==
    LET user_id == IF Truthy(event.context.user_id) THEN event.context.user_id ELSE <<>>
        memories == list_for_user(store, user_id)
    IN LastN([ i \in 1..Len(memories) |-> memories[i].text ], RecallLimit)

\* _generate_response up to its return or to the await that suspends it:
\* the execution of a tool, the generation of the AI adapter
generate_response_begin(sv, text, event) ==
    LET t == lower(text)
        nums == findall_numbers(text, 1)
        recent == recalled_texts(sv.items, event)
        fact == strip(SubSeq(text, 9, Len(text)))
    IN IF \E k \in GreetingWords : Contains(t, k)
       THEN [ awaits |-> "nothing", response |-> << "Hello! I'm Janus, your AI teammate. How can I help you today?" >>, sv |-> sv ]
       ELSE IF Contains(t, <<"t", "i", "m", "e">>)
       THEN [ awaits |-> "tool", tool |-> "time", parameters |-> None, sv |-> sv ]
       ELSE IF (Contains(t, <<"c", "a", "l", "c", "u", "l", "a", "t", "e">>) \/ \E op \in OperatorWords : Contains(t, op)) /\ Len(nums) >= 2
       THEN [ awaits |-> "tool", tool |-> "calculator", parameters |-> [ operation |-> operation_of(t), a |-> nums[1], b |-> nums[2] ], sv |-> sv ]
       ELSE IF startswith(t, <<"r", "e", "m", "e", "m", "b", "e", "r", " ">>)
       THEN [ awaits |-> "nothing", response |-> << "Got it. I'll remember that: " >> \o fact,
              sv |-> memory_add(sv, event.context.user_id, event.context.session_id, fact_prefix \o fact) ]
       ELSE IF Contains(t, <<"w", "h", "a", "t", " ", "d", "o", " ", "y", "o", "u", " ", "r", "e", "m", "e", "m", "b", "e", "r">>) \/ Contains(t, <<"w", "h", "a", "t", " ", "d", "o", " ", "y", "o", "u", " ", "r", "e", "m", "e", "m", "b", "e", "r", " ", "a", "b", "o", "u", "t", " ", "m", "e">>)
       THEN [ awaits |-> "nothing",
              response |-> IF recent = <<>> THEN << "I don't have any specific memories yet." >>
                           ELSE << "Here's what I remember from our recent interaction:", "\n" >> \o join_lines(recent),
              sv |-> sv ]
       ELSE [ awaits |-> "ai", messages |-> ai_messages(sv.items, text, event), sv |-> sv ]

\* _generate_response from the return of tool.execute
generate_response_after_tool(tool, res) ==
    IF tool = "time"
    THEN IF res.success THEN << "I executed the time tool. Result: " >> \o res.result
         ELSE << "Tried to get time but failed: " >> \o res.error
    ELSE IF res.success THEN << "I executed the calculator tool. Result: " >> \o res.result
         ELSE << "Calculation failed: " >> \o res.error

\* MockAIAdapter.generate: the content of the AIResponse
RECURSIVE last_user_content(_)
last_user_content(messages) ==
    IF messages = <<>> THEN <<>>
    ELSE IF messages[Len(messages)].role = "user" THEN messages[Len(messages)].content
    ELSE last_user_content(SubSeq(messages, 1, Len(messages) - 1))
MockAIAdapter_generate(messages) ==
    << "I understand you're saying: '" >> \o last_user_content(messages) \o << "'. How else can I help?" >>

\* what ai.generate does: the mock's reply, a reply without content, an exception
AiOutcomes == { "mock", "empty", "raise" }

\* _generate_response from the return of ai.generate
generate_response_after_ai(text, messages, outcome) ==
    IF outcome = "raise" THEN << "Based on our conversation, I understand you're asking about: " >> \o text
    ELSE IF outcome = "empty" THEN <<>>
    ELSE MockAIAdapter_generate(messages)

\* a request that has not arrived
idle_request == [ pc |-> "idle", endpoint |-> "none", event |-> None, text |-> NoneStr, awaiting |-> None, generated |-> NoneStr, response_text |-> NoneStr, captured |-> <<>>, reply |-> None ]

\* capture_response of request h.request called with a response event:
\* the closure sets the response_text of its request
RECURSIVE call_handlers(_, _, _)
call_handlers(sv, handlers, event) ==
    IF handlers = <<>> THEN sv
    ELSE call_handlers([ sv EXCEPT !.requests[Head(handlers).request].response_text = event.content.text,
                                   !.requests[Head(handlers).request].captured = Append(@, event) ],
                       Tail(handlers), event)

\* InMemoryEventBus.publish that calls the first subscribed handler only
publish_first_handler_only(sv, event) ==
    call_handlers([ sv EXCEPT !.event_history = Append(@, event) ],
                  FirstN(sv.subscribers[event.event_type] \o sv.subscribers["*"], 1), event)

\* InMemoryEventBus.publish of a response event: the event joins the
\* history, then the handlers subscribed at this moment are called in order
publish(sv, event) ==
    call_handlers([ sv EXCEPT !.event_history = Append(@, event) ],
                  sv.subscribers[event.event_type] \o sv.subscribers["*"], event)

\* _on_input that gives the response event identifiers of its own for the
\* stream and the trace
on_input_end_fresh_trace(sv, r, response_text) ==
    LET event == sv.requests[r].event
        stored == memory_add([ sv EXCEPT !.requests[r].generated = response_text ],
                             event.context.user_id, event.context.session_id, assistant_prefix \o response_text)
    IN publish([ stored EXCEPT !.next_id = @ + 2, !.server_clock = @ + 1 ],
               [ event_id |-> new_id(stored.next_id),
                 stream_id |-> new_id(stored.next_id + 1),
                 event_type |-> "orchestrator.response.ready",
                 timestamp |-> stored.server_clock,
                 trace_id |-> new_id(stored.next_id + 1),
                 content |-> [ event.content EXCEPT !.text = response_text ],
                 context |-> event.context ])

\* Orchestrator._on_input from the return of _generate_response: the
\* reply joins the memory and the response event is published
on_input_end(sv, r, response_text) ==
    LET event == sv.requests[r].event
        stored == memory_add([ sv EXCEPT !.requests[r].generated = response_text ],
                             event.context.user_id, event.context.session_id, assistant_prefix \o response_text)
    IN publish([ stored EXCEPT !.next_id = @ + 1, !.server_clock = @ + 1 ],
               [ event_id |-> new_id(stored.next_id),
                 stream_id |-> event.stream_id,
                 event_type |-> "orchestrator.response.ready",
                 timestamp |-> stored.server_clock,
                 trace_id |-> event.trace_id,
                 content |-> [ event.content EXCEPT !.text = response_text ],
                 context |-> event.context ])

\* the value an endpoint returns once bus.publish(event) has returned
endpoint_return(sv, r) ==
    LET request == sv.requests[r]
    IN [ sv EXCEPT !.requests[r].pc = "done",
                   !.requests[r].reply =
                       IF request.endpoint = "chat"
                       THEN [ response |-> IF Truthy(request.response_text) THEN request.response_text
                                           ELSE << "Unexpected error: no response generated" >>,
                              trace_id |-> request.event.trace_id ]
                       ELSE [ status |-> "ok", response |-> request.response_text, trace_id |-> request.event.trace_id ] ]

\* the rest of a request from the return of _generate_response
finish(sv, r, response_text) == endpoint_return(on_input_end(sv, r, response_text), r)

\* an endpoint from the event of its adapter: capture_response is
\* subscribed, the event is published, and the orchestrator's _on_input
\* stores the message and runs _generate_response up to its return or to an
\* await that suspends the request
handle(sv, r, endpoint, event) ==
    LET subscribed == subscribe([ sv EXCEPT !.requests[r].endpoint = endpoint, !.requests[r].event = event ],
                                "orchestrator.response.ready", capture_response(r))
        published == [ subscribed EXCEPT !.event_history = Append(@, event) ]
        stored == memory_add(published, event.context.user_id, event.context.session_id, user_prefix \o event.content.text)
        text == strip(event.content.text)
        began == generate_response_begin(stored, text, event)
    IN IF began.awaits = "nothing" THEN finish(began.sv, r, began.response)
       ELSE [ began.sv EXCEPT !.requests[r].pc = began.awaits,
                              !.requests[r].text = text,
                              !.requests[r].awaiting = IF began.awaits = "tool"
                                                       THEN [ tool |-> began.tool, parameters |-> began.parameters ]
                                                       ELSE [ messages |-> began.messages ] ]

\* the requests arrive in the order of their numbers
Arrives(r) ==
    /\ requests[r].pc = "idle"
    /\ \A q \in RequestIds : q < r => requests[q].pc # "idle"

\* POST /chat
Chat(r, message, user_id, session_id) ==
    /\ Arrives(r)
    /\ LET evt_res == APIInputAdapter_process_input(ServerState, message, user_id, session_id)
       IN IF ~evt_res.is_success
          THEN Becomes([ evt_res.sv EXCEPT !.requests[r].pc = "done", !.requests[r].endpoint = "chat",
                                           !.requests[r].reply = [ response |-> << "Invalid input: " >> \o evt_res.error, trace_id |-> NoneStr ] ])
          ELSE Becomes(handle(evt_res.sv, r, "chat", evt_res.value))
    /\ UNCHANGED nonServerVars

\* POST /webhook
Webhook(r, payload, x_signature, user_id, session_id) ==
    /\ Arrives(r)
    /\ LET evt_res == WebhookAdapter_process_input(ServerState, payload, x_signature, user_id, session_id)
       IN IF evt_res.raised
          THEN Becomes([ evt_res.sv EXCEPT !.requests[r].pc = "done", !.requests[r].endpoint = "webhook",
                                           !.requests[r].reply = [ status |-> "raised", reason |-> evt_res.error ] ])
          ELSE IF ~evt_res.is_success
          THEN Becomes([ evt_res.sv EXCEPT !.requests[r].pc = "done", !.requests[r].endpoint = "webhook",
                                           !.requests[r].reply = [ status |-> "error", reason |-> evt_res.error ] ])
          ELSE Becomes(handle(evt_res.sv, r, "webhook", evt_res.value))
    /\ UNCHANGED nonServerVars

\* tool.execute returns to the request it suspended
ToolReturns(r) ==
    /\ requests[r].pc = "tool"
    /\ LET res == tool_execute(ServerState, requests[r].awaiting.tool, requests[r].awaiting.parameters)
       IN Becomes(finish(res.sv, r, generate_response_after_tool(requests[r].awaiting.tool, res)))
    /\ UNCHANGED nonServerVars

\* ai.generate returns to the request it suspended, or raises
AiReturns(r, outcome) ==
    /\ requests[r].pc = "ai"
    /\ Becomes(finish(ServerState, r, generate_response_after_ai(requests[r].text, requests[r].awaiting.messages, outcome)))
    /\ UNCHANGED nonServerVars

\* the payloads of the webhook requests
Payloads == { other_message }

NextServer ==
    \/ \E r \in RequestIds, message \in Messages, caller \in Callers :
           Chat(r, message, caller[1], caller[2])
    \/ \E r \in RequestIds, payload \in Payloads, caller \in Callers :
           \E x_signature \in Signatures(payload) : Webhook(r, payload, x_signature, caller[1], caller[2])
    \/ \E r \in RequestIds : ToolReturns(r)
    \/ \E r \in RequestIds, outcome \in AiOutcomes : AiReturns(r, outcome)

\* create_app: the orchestrator has subscribed _on_input, nothing was
\* published or stored, no request has arrived
InitServerVars ==
    /\ subscribers = [ event_type \in { "input.message.received", "orchestrator.response.ready", "*" } |->
                         IF event_type = "input.message.received" THEN << on_input_handler >> ELSE <<>> ]
    /\ event_history = <<>>
    /\ _items = <<>>
    /\ requests = [ r \in RequestIds |-> idle_request ]
    /\ next_id = 1
    /\ server_clock = 0

\* no operation has been called on its own
InitEventVars == applied = None

Init ==
    /\ InitPipeVars
    /\ InitPermVars
    /\ InitEventVars
    /\ InitRegistryVars
    /\ InitRunVars
    /\ InitServerVars

Next ==
    \/ \E raw \in RawInputs, creds \in CredentialChoices : StartRun(raw, creds)
    \/ AuthenticationStage
    \/ ValidationStage
    \/ ProcessingStage

Spec == Init /\ [][Next]_vars

\* a run in which every collaborator call returns or raises: a stage that
\* has been entered is eventually left
SpecLive ==
    /\ Spec
    /\ WF_vars(AuthenticationStage)
    /\ WF_vars(ValidationStage)
    /\ WF_vars(ProcessingStage)

-----------------------------------------------------------------------------
(* The helpers of EventBuilder and the health check of the pipeline, called
   on their own *)

\* the texts a TextContent may hold
EventTexts ==
    { help_text, <<" ">> \o help_text, <<"!","g","o">>, hello_text, calculate_text, <<>> }

\* the content types a ValidatedInput may hold
ContentTypes == { "text", "command", "text_with_attachments", "file_upload", "unknown" }

\* the metadata a TextContent may hold: the format metadata, with or
\* without the attachments kept as references
ContentMetadataChoices ==
    { extract_format_metadata(DictInput({}), "text", 0),
      Put(extract_format_metadata(DictInput({}), "text", 0), "attachments", chart_png) }

\* an AuthContext for the credential creds
AuthContextOf(creds) ==
    create_auth_context(user_12345, creds, creds.credential_permissions,
                        { <<"method", creds.source_type>> }, 0)

\* a ValidatedInput holding the text, with the content type content_type
ValidatedInputOf(text, content_type) ==
    [ create_validated_input(StrInput(text), { <<"text", text>> }, {}, 0, 0, FALSE)
        EXCEPT !.content_type = content_type ]

\* determine_event_type is called with a content and a processing context
DetermineEventType(text, content_type, metadata) ==
    LET content == [ text |-> text, original_format |-> content_type, metadata |-> metadata ]
        processing_context ==
            create_processing_context(ValidatedInputOf(text, content_type),
                                      AuthContextOf(CHOOSE c \in CredentialChoices : TRUE),
                                      {}, 0)
    IN  /\ applied' = [ fn |-> "determine_event_type",
                        content |-> content,
                        processing_context |-> processing_context,
                        value |-> determine_event_type(content, processing_context) ]
        /\ UNCHANGED nonEventVars

\* what an optional id may be: None, the empty str, or an id
OptionalStreamIds == { NoneStr, <<>>, <<"stream_42">> }
OptionalSessionIds == { NoneStr, <<>>, <<"sess_abc">> }

\* generate_event_ids is called with a processing context
GenerateEventIds(stream_id, session_id, event_id, trace_id) ==
    LET made == create_processing_context(
                    ValidatedInputOf(hello_text, "text"),
                    AuthContextOf(CHOOSE c \in CredentialChoices : TRUE), {}, 0)
        processing_context == [ made EXCEPT !.stream_id = stream_id,
                                            !.auth_context.session_id = session_id ]
    IN  /\ applied' = [ fn |-> "generate_event_ids",
                        processing_context |-> processing_context,
                        uuids |-> << event_id, trace_id >>,
                        value |-> generate_event_ids(processing_context, event_id, trace_id) ]
        /\ UNCHANGED nonEventVars

\* the adapter contexts an adapter may hand in: none, a key of its own, and
\* keys that the event metadata also uses
EventAdapterContexts ==
    AdapterContexts \cup
    { { <<"authentication_method", <<"spoofed">> >> },
      { <<"processing_pipeline", <<>> >>, <<"slack_channel", <<"C1234567890">> >> } }

\* the auth_metadata an authenticator may record: with or without a method
AuthMetadataChoices(creds) == { { <<"method", creds.source_type>> }, {} }

\* create_event_context is called with a processing context
CreateEventContext(creds, auth_metadata, adapter_context, t) ==
    LET auth == create_auth_context(user_12345, creds, creds.credential_permissions,
                                    auth_metadata, 0)
        processing_context ==
            create_processing_context(ValidatedInputOf(hello_text, "text"), auth,
                                      adapter_context, 0)
    IN  /\ applied' = [ fn |-> "create_event_context",
                        processing_context |-> processing_context,
                        utcnow |-> t,
                        value |-> create_event_context(processing_context, t) ]
        /\ UNCHANGED nonEventVars

\* what awaiting the health_check of a component may give
Healthy(health) == [ raised |-> FALSE, health |-> health ]

AuthenticatorHealth == { Healthy(TRUE), Healthy(FALSE), [ raised |-> TRUE, health |-> FALSE ] }

ValidatorHealth ==
    { Healthy({ << <<"format_validator">>, f >>, << <<"safety_validator">>, s >> }) :
        f \in BOOLEAN, s \in BOOLEAN }
    \cup { [ raised |-> TRUE, health |-> {} ] }

ProcessorHealth ==
    { Healthy({ << <<"content_normalizer">>, n >>, << <<"event_builder">>, b >> }) :
        n \in BOOLEAN, b \in BOOLEAN }
    \cup { [ raised |-> TRUE, health |-> {} ] }

\* {f"{prefix}{k}": v for k, v in health.items()}
Prefixed(prefix, health) == { << <<prefix>> \o kv[1], kv[2] >> : kv \in health }

\* dict.update
Update(d, e) == Merge(d, e)

\* health_check whose last try has no except
health_check_unguarded(authenticator_health, validator_health, processor_health) ==
    LET with_authenticator ==
            Put({}, <<"authenticator">>,
                IF authenticator_health.raised THEN FALSE ELSE authenticator_health.health)
        with_validator ==
            IF validator_health.raised
            THEN Put(with_authenticator, <<"validator">>, FALSE)
            ELSE Update(with_authenticator, Prefixed("validator_", validator_health.health))
    IN  IF processor_health.raised
        THEN [ raised |-> TRUE, health_status |-> {} ]
        ELSE [ raised |-> FALSE,
               health_status |->
                   Update(with_validator, Prefixed("processor_", processor_health.health)) ]

\* InputPipeline.health_check; the arguments are what awaiting the three
\* components' health_check gives
health_check(authenticator_health, validator_health, processor_health) ==
    LET with_authenticator ==
            Put({}, <<"authenticator">>,
                IF authenticator_health.raised THEN FALSE ELSE authenticator_health.health)
        with_validator ==
            IF validator_health.raised
            THEN Put(with_authenticator, <<"validator">>, FALSE)
            ELSE Update(with_authenticator, Prefixed("validator_", validator_health.health))
        with_processor ==
            IF processor_health.raised
            THEN Put(with_validator, <<"processor">>, FALSE)
            ELSE Update(with_validator, Prefixed("processor_", processor_health.health))
    IN  [ raised |-> FALSE, health_status |-> with_processor ]

\* health_check is called on the pipeline
HealthCheck(authenticator_health, validator_health, processor_health) ==
    /\ applied' = [ fn |-> "health_check",
                    authenticator |-> authenticator_health,
                    validator |-> validator_health,
                    processor |-> processor_health,
                    value |-> health_check(authenticator_health, validator_health,
                                           processor_health) ]
    /\ UNCHANGED nonEventVars

\* an InputCapability, by its name and the names it depends on
InputCapability(name, dependencies) == [ name |-> name, dependencies |-> dependencies ]

\* what get_capabilities of a provider may return: everything satisfied; a
\* direct dependency missing; a dependency of a dependency missing; two
\* direct dependencies missing
ProviderCapabilityLists ==
    { << InputCapability("text_processing", <<>>),
         InputCapability("file_attachments", <<"text_processing">>) >>,
      << InputCapability("file_attachments", <<"text_processing">>) >>,
      << InputCapability("document_parsing", <<"file_attachments">>),
         InputCapability("file_attachments", <<"text_processing">>) >>,
      << InputCapability("image_processing", <<"file_attachments", "text_processing">>) >> }

\* the capability names a caller may require
RequirableNames ==
    { "text_processing", "file_attachments", "document_parsing", "image_processing" }

MaxRequired == 2

\* the lists of at most MaxRequired required capabilities
RequiredLists ==
    UNION { [ 1..n -> RequirableNames ] : n \in 0..MaxRequired }

\* CapabilityProvider.supports_capability of a provider that supports what
\* get_capabilities lists
supports(capabilities, capability_name) ==
    \E i \in DOMAIN capabilities : capabilities[i].name = capability_name

\* CapabilityProvider.get_capability_details: the first capability of that
\* name, or None
get_capability_details(capabilities, capability_name) ==
    IF supports(capabilities, capability_name)
    THEN capabilities[CHOOSE i \in DOMAIN capabilities :
                          /\ capabilities[i].name = capability_name
                          /\ \A j \in 1..(i - 1) : capabilities[j].name # capability_name]
    ELSE None

\* CapabilityProvider.get_capability_dependencies
get_capability_dependencies(capabilities, capability_name) ==
    LET capability == get_capability_details(capabilities, capability_name)
    IN  IF capability # None THEN capability.dependencies ELSE <<>>

\* f"{capability_name} (requires {dep})"
RequiresText(capability_name, dep) == << capability_name, " (requires ", dep, ")" >>

\* validate_capability_requirements that does not look at dependencies
RECURSIVE validate_capability_requirements_no_dependencies(_, _)
validate_capability_requirements_no_dependencies(capabilities, required_capabilities) ==
    IF required_capabilities = <<>> THEN <<>>
    ELSE LET capability_name == Head(required_capabilities)
             rest == validate_capability_requirements_no_dependencies(
                         capabilities, Tail(required_capabilities))
         IN  IF ~supports(capabilities, capability_name)
             THEN << << capability_name >> >> \o rest
             ELSE rest

\* CapabilityProvider.validate_capability_requirements: the list `missing`
RECURSIVE validate_capability_requirements(_, _)
validate_capability_requirements(capabilities, required_capabilities) ==
    IF required_capabilities = <<>> THEN <<>>
    ELSE LET capability_name == Head(required_capabilities)
             rest == validate_capability_requirements(capabilities,
                                                      Tail(required_capabilities))
             dependencies == get_capability_dependencies(capabilities, capability_name)
             unsupported == SelectSeq(dependencies, LAMBDA dep : ~supports(capabilities, dep))
         IN  IF ~supports(capabilities, capability_name)
             THEN << << capability_name >> >> \o rest
             ELSE [ i \in DOMAIN unsupported |->
                      RequiresText(capability_name, unsupported[i]) ] \o rest

\* validate_capability_requirements is called on a provider
ValidateCapabilityRequirements(capabilities, required_capabilities) ==
    /\ applied' = [ fn |-> "validate_capability_requirements",
                    capabilities |-> capabilities,
                    required_capabilities |-> required_capabilities,
                    value |-> validate_capability_requirements(capabilities,
                                                               required_capabilities) ]
    /\ UNCHANGED nonEventVars

NextEvent ==
    \/ \E text \in EventTexts, content_type \in ContentTypes,
          metadata \in ContentMetadataChoices :
           DetermineEventType(text, content_type, metadata)
    \/ \E stream_id \in OptionalStreamIds, session_id \in OptionalSessionIds,
          event_id \in UUIDs, trace_id \in UUIDs :
           GenerateEventIds(stream_id, session_id, event_id, trace_id)
    \/ \E creds \in CredentialChoices, adapter_context \in EventAdapterContexts,
          t \in 0..1 :
           \E auth_metadata \in AuthMetadataChoices(creds) :
               CreateEventContext(creds, auth_metadata, adapter_context, t)
    \/ \E authenticator_health \in AuthenticatorHealth,
          validator_health \in ValidatorHealth, processor_health \in ProcessorHealth :
           HealthCheck(authenticator_health, validator_health, processor_health)
    \/ \E capabilities \in ProviderCapabilityLists, required \in RequiredLists :
           ValidateCapabilityRequirements(capabilities, required)

InitEvent ==
    /\ InitEventVars
    /\ InitRegistryVars
    /\ InitRunVars
    /\ InitPermVars
    /\ InitPipeVars
    /\ InitServerVars

SpecEvent == InitEvent /\ [][NextEvent]_vars

\* the capability registry used by concurrent tasks
InitRegistry ==
    /\ InitRegistryVars
    /\ InitPermVars
    /\ InitPipeVars
    /\ InitEventVars
    /\ InitRunVars
    /\ InitServerVars

SpecRegistry == InitRegistry /\ [][NextRegistry]_vars

\* two calls of process on one pipeline, their steps interleaved
InitRuns ==
    /\ InitRunVars
    /\ InitPermVars
    /\ InitPipeVars
    /\ InitEventVars
    /\ InitRegistryVars
    /\ InitServerVars

SpecRuns == InitRuns /\ [][NextRuns]_vars

\* the permission resolver called on its own
InitPerm ==
    /\ InitPermVars
    /\ InitPipeVars
    /\ InitEventVars
    /\ InitRegistryVars
    /\ InitRunVars
    /\ InitServerVars

SpecPerm == InitPerm /\ [][NextPerm]_vars

-----------------------------------------------------------------------------
(* Properties of compute_final_permissions, checked under SpecPerm *)

IsWildcard(perm) == endswith(perm, <<".", "*">>)

\* p is covered by the wildcard entry w = "X.*": p starts with "X."
CoveredBy(p, w) ==
    /\ IsWildcard(w)
    /\ startswith(p, SubSeq(w, 1, Len(w) - 2) \o <<".">>)

\* the reference result as a set
ReferencePermissions(C, U) ==
    { p \in ToSet(U) : p \in ToSet(C) \/ \E w \in ToSet(C) : CoveredBy(p, w) }

\* `list` with the entries at i and i+1 exchanged
SwapAt(list, i) ==
    [ k \in 1..Len(list) |->
        IF k = i THEN list[i + 1] ELSE IF k = i + 1 THEN list[i] ELSE list[k] ]

\* `list` after one elementary change that keeps its set of elements: two
\* neighbours exchanged, or one entry repeated at the end.  Every reordering
\* and duplication is a chain of these, and every chain of arguments within
\* the bounds is a chain of reachable calls.
SameSetSteps(list) ==
    { list }
      \cup { SwapAt(list, i) : i \in 1..(Len(list) - 1) }
      \cup { Append(list, list[i]) : i \in 1..Len(list) }

\* C3: every granted permission is one of the user's permissions and is
\* either literally a credential permission or covered by a credential
\* wildcard "X.*" through the prefix "X."
C3_GrantedWithinUserAndCredential ==
    perm_pc = "done" =>
        \A i \in 1..Len(final_permissions) :
            /\ final_permissions[i] \in ToSet(user_permissions)
            /\ \/ final_permissions[i] \in ToSet(credential_permissions)
               \/ \E w \in ToSet(credential_permissions) :
                      CoveredBy(final_permissions[i], w)

\* C3 witness: a call that granted something through a wildcard only, and
\* refused a user permission and a credential permission
C3_Witness ==
    /\ perm_pc = "done"
    /\ \E i \in 1..Len(final_permissions) :
           final_permissions[i] \notin ToSet(credential_permissions)
    /\ \E p \in ToSet(user_permissions) : p \notin ToSet(final_permissions)
    /\ \E p \in ToSet(credential_permissions) :
           ~IsWildcard(p) /\ p \notin ToSet(final_permissions)

\* C4: the returned permissions are exactly the reference set (the user
\* permissions that are credential permissions or covered by a credential
\* wildcard), and the documented example returns ["chat","tools.calculator"]
C4_EqualsReference ==
    perm_pc = "done" =>
        /\ ToSet(final_permissions) =
               ReferencePermissions(credential_permissions, user_permissions)
        /\ (/\ credential_permissions = ExampleCredentialPermissions
            /\ user_permissions = ExampleUserPermissions)
               => final_permissions = ExampleFinalPermissions

\* C4 witness: the documented example has been computed
C4_Witness ==
    /\ perm_pc = "done"
    /\ credential_permissions = ExampleCredentialPermissions
    /\ user_permissions = ExampleUserPermissions
    /\ final_permissions = ExampleFinalPermissions

\* C5: the result is strictly ascending (sorted, no duplicates), and
\* exchanging two entries or repeating an entry in either argument list
\* returns the same list, so the result depends on the two sets only
C5_DependsOnSetsOnly ==
    perm_pc = "done" =>
        /\ \A i \in 1..(Len(final_permissions) - 1) :
               StrLess(final_permissions[i], final_permissions[i + 1])
        /\ \A A \in SameSetSteps(credential_permissions) :
           \A B \in SameSetSteps(user_permissions) :
               compute_final_permissions(A, B) = { final_permissions }

\* C5 witness: two permissions were granted from a user list that is not
\* in ascending order and a credential list that holds a duplicate
C5_Witness ==
    /\ perm_pc = "done"
    /\ Len(final_permissions) = 2
    /\ Len(user_permissions) = 2
    /\ StrLess(user_permissions[2], user_permissions[1])
    /\ Len(credential_permissions) = 2
    /\ credential_permissions[1] = credential_permissions[2]

\* C6: an empty credential list or an empty user list gives the empty
\* list, and a credential wildcard that covers no user permission
\* changes nothing: the result is the one computed without it
C6_EmptyAndUnmatchedWildcard ==
    perm_pc = "done" =>
        /\ (credential_permissions = <<>> \/ user_permissions = <<>>)
               => final_permissions = <<>>
        /\ \A w \in ToSet(credential_permissions) :
               (IsWildcard(w) /\ \A p \in ToSet(user_permissions) : ~CoveredBy(p, w))
                   => compute_final_permissions(Without(credential_permissions, w),
                                                user_permissions)
                          = { final_permissions }

\* C6 witness: a call with a credential wildcard that covers none of the
\* user's permissions, which still granted another permission
C6_Witness ==
    /\ perm_pc = "done"
    /\ \E w \in ToSet(credential_permissions) :
           /\ IsWildcard(w)
           /\ user_permissions # <<>>
           /\ \A p \in ToSet(user_permissions) : ~CoveredBy(p, w)
    /\ final_permissions # <<>>

\* the text before ".*" of a wildcard entry
Stem(w) == SubSeq(w, 1, Len(w) - 2)

\* C30: wildcards are expanded on the credential side only.  An entry
\* "X.*" of user_permissions is a literal string: whatever is granted is
\* literally in user_permissions, so credential ["tools.calculator"] with
\* user ["tools.*"] grants nothing.  A credential wildcard "X.*" grants
\* neither "X" itself nor a permission that starts with "X" but not with
\* "X.": such a permission is granted only as a literal credential entry
\* or through another credential wildcard
C30_WildcardCredentialSideOnly ==
    perm_pc = "done" =>
        /\ \A p \in ToSet(credential_permissions) :
               p \in ToSet(final_permissions) => p \in ToSet(user_permissions)
        /\ ToSet(final_permissions) \subseteq ToSet(user_permissions)
        /\ ( /\ credential_permissions = << tools_calculator >>
             /\ user_permissions = << tools_all >> )
               => final_permissions = <<>>
        /\ \A w \in ToSet(credential_permissions) :
               IsWildcard(w) =>
                   \A p \in ToSet(final_permissions) :
                       ( startswith(p, Stem(w)) /\ ~startswith(p, Stem(w) \o <<".">>) )
                           => \/ p \in ToSet(credential_permissions)
                              \/ \E v \in ToSet(credential_permissions) \ { w } :
                                     CoveredBy(p, v)

\* C30 witness: credential ["tools.calculator", "tools.*"] with user
\* ["tools.*", "tools"]: "tools.calculator" is not granted although the
\* user holds "tools.*", "tools" is not granted although the credential
\* holds "tools.*", and the literal "tools.*" is granted
C30_Witness ==
    /\ perm_pc = "done"
    /\ credential_permissions = << tools_calculator, tools_all >>
    /\ user_permissions = << tools_all, tools >>
    /\ final_permissions = << tools_all >>

-----------------------------------------------------------------------------
(* Properties of a pipeline run, checked under Spec *)

Stages == <<"authentication", "validation", "processing">>
StageCalls == <<"authenticate", "validate", "process">>

Finalized == pc \in { "COMPLETE", "FAILED" }

\* the i-th collaborator call of the run was made
Called(i) == Len(calls) >= i
\* ... and raised
CallRaised(i) == Called(i) /\ calls[i].awaited.raised
\* ... and returned an error Result
CallReturnedError(i) ==
    Called(i) /\ ~calls[i].awaited.raised /\ ~calls[i].awaited.result.is_success
\* ... and returned a success Result
CallSucceeded(i) ==
    Called(i) /\ ~calls[i].awaited.raised /\ calls[i].awaited.result.is_success
CallFailed(i) == CallRaised(i) \/ CallReturnedError(i)

\* the text of a raw input
InputText(raw) == IF raw.type = "str" THEN raw.str ELSE Get(raw.dict, "text")

\* C1: when authenticate returned an error or raised, stages_completed
\* holds neither "validation" nor "processing"; when validate returned an
\* error or raised, stages_completed is exactly ["authentication"]
C1_FixedOrder ==
    /\ CallFailed(1) =>
          \A i \in 1..Len(result.stages_completed) :
              result.stages_completed[i] \notin { "validation", "processing" }
    /\ CallFailed(2) => result.stages_completed = << "authentication" >>

\* C1 witness: a run that ended because validate returned an error, with
\* the authentication stage recorded as completed
C1_Witness ==
    /\ pc = "FAILED"
    /\ CallReturnedError(2)
    /\ result.stages_completed = << "authentication" >>

\* C2: the collaborators are called in the order authenticate, validate,
\* process; validate is called only after authenticate succeeded and with
\* the AuthContext it returned; process is called only after validate
\* succeeded, with the ValidatedInput it returned and the same AuthContext
C2_CallOrder ==
    /\ Len(calls) <= 3
    /\ \A i \in 1..Len(calls) : calls[i].fn = StageCalls[i]
    /\ Called(2) =>
          /\ CallSucceeded(1)
          /\ calls[2].auth_context = calls[1].awaited.result.value
    /\ Called(3) =>
          /\ CallSucceeded(2)
          /\ calls[3].validated_input = calls[2].awaited.result.value
          /\ calls[3].auth_context = calls[1].awaited.result.value

\* C2 witness: a run in which all three collaborators were called
C2_Witness ==
    /\ Len(calls) = 3
    /\ CallSucceeded(3)

\* C7: in a finalized result success holds exactly when the event is
\* present and the error absent; a run whose authentication failed ends
\* with success false, failed_stage "authentication" and no event; and a
\* successful run holds the one event its processor call built
C7_ResultShape ==
    Finalized =>
        /\ result.success <=> (result.event # None /\ result.error = None)
        /\ CallFailed(1) =>
              /\ ~result.success
              /\ result.error # None
              /\ result.error.failed_stage = "authentication"
              /\ result.event = None
        /\ result.success =>
              /\ Cardinality({ i \in 1..Len(calls) :
                                 calls[i].fn = "process" /\ CallSucceeded(i) }) = 1
              /\ result.event = calls[3].awaited.result.value

\* C7 witness: a webhook request whose credential check returned an error
\* (an invalid signature), finalized
C7_Witness ==
    /\ pc = "FAILED"
    /\ credentials.source_type = <<"webhook">>
    /\ CallReturnedError(1)
    /\ calls[1].awaited.result.error.auth_failure_reason = "invalid_credentials"
    /\ result.error.failed_stage = "authentication"

\* C8: when all three stages succeeded, stages_completed is
\* ["authentication","validation","processing"], the permissions of the
\* event's context are the AuthContext's granted_permissions, which are the
\* intersection of the credential's and the user's permissions, and the
\* text of the event's content is the text of the input
C8_SuccessfulRun ==
    (CallSucceeded(1) /\ CallSucceeded(2) /\ CallSucceeded(3) /\ Finalized) =>
        /\ result.stages_completed = Stages
        /\ result.event.context.permissions = auth_context.granted_permissions
        /\ result.event.context.permissions \in
               compute_final_permissions(credentials.credential_permissions,
                                         calls[1].resolved)
        /\ result.event.content.text = InputText(raw_input)

\* C8 witness: the end-to-end scenario, {"text": "Calculate 2+2"} sent with
\* credential permissions ["chat","tools.*"] by a user holding
\* ["chat","tools.calculator"]
C8_Witness ==
    /\ pc = "COMPLETE"
    /\ raw_input = DictInput({ <<"text", calculate_text>> })
    /\ credentials.credential_permissions = ExampleCredentialPermissions
    /\ calls[1].resolved = << chat, tools_calculator >>
    /\ result.event.content.text = calculate_text
    /\ result.event.context.permissions = << chat, tools_calculator >>
    /\ result.stages_completed = Stages

\* C9: when a stage collaborator raises, the exception does not leave the
\* stage: the run ends with a finalized result, and the exception has
\* become an error of the stage's own kind (AuthenticationError,
\* ValidationError, ProcessingError), kept in the stage_errors of the
\* pipeline's error
C9_ExceptionBecomesStageError ==
    \A i \in 1..Len(calls) :
        (Finalized /\ CallRaised(i)) =>
            /\ result.error # None
            /\ Len(result.error.stage_errors) = 1
            /\ result.error.stage_errors[1].error_type = StageErrorKind(Stages[i])

\* what the except branches of the stage executors do: a collaborator's
\* exception ends the run with a finalized result whose error is a
\* PipelineError naming the stage, with the exception's text in its message
\* and pipeline_context and with no stage error at all; no event, no
\* success, and the stage is timed but not completed
ExceptionBecomesPipelineError ==
    \A i \in 1..Len(calls) :
        CallRaised(i) =>
            /\ pc = "FAILED"
            /\ i = Len(calls)
            /\ ~result.success
            /\ result.event = None
            /\ result.completed_at # NoTime
            /\ result.error.error_type = "pipeline_error"
            /\ result.error.failed_stage = Stages[i]
            /\ result.error.message[2] = calls[i].awaited.exception
            /\ Get(result.error.pipeline_context, "exception")
                   = << calls[i].awaited.exception >>
            /\ Get(result.error.pipeline_context, "pipeline_id") = result.pipeline_id
            /\ result.error.stage_errors = <<>>
            /\ HasKey(result.stage_timings, Stages[i])
            /\ result.stages_completed = SubSeq(Stages, 1, i - 1)

\* C9 witness: the processor raised after two completed stages and the
\* run's error holds no stage error
C9_Witness ==
    /\ CallRaised(3)
    /\ result.error.failed_stage = "processing"
    /\ result.error.stage_errors = <<>>

\* a run that ended has completed_at set and not before started_at, and
\* total_processing_time_ms is the whole milliseconds between the two or
\* one less, and is the whole milliseconds when the run took a second or less
FinalizedWithinAMillisecond ==
    /\ Finalized =>
          LET gap == result.completed_at - result.started_at
          IN  /\ result.completed_at # NoTime
              /\ gap >= 0
              /\ result.total_processing_time_ms \in
                     { gap \div UsPerMs, gap \div UsPerMs - 1 }
              /\ result.total_processing_time_ms >= 0
              /\ gap <= 1000 * UsPerMs =>
                     result.total_processing_time_ms = gap \div UsPerMs
    /\ (Called(3) \/ CallFailed(1) \/ CallFailed(2)) => Finalized

\* C10: a run that ended, at whatever stage and however, has completed_at
\* set and not before started_at, and total_processing_time_ms is the
\* whole milliseconds between the two
C10_Finalized ==
    /\ Finalized =>
          /\ result.completed_at # NoTime
          /\ result.completed_at >= result.started_at
          /\ result.total_processing_time_ms * UsPerMs
                 <= result.completed_at - result.started_at
          /\ result.completed_at - result.started_at
                 < (result.total_processing_time_ms + 1) * UsPerMs
    /\ (Called(3) \/ CallFailed(1) \/ CallFailed(2)) => Finalized

\* C10 witness: a run ended by an exception in validation, more than a
\* millisecond after it started, while no single stage took a millisecond
C10_Witness ==
    /\ pc = "FAILED"
    /\ CallRaised(2)
    /\ result.total_processing_time_ms = 1
    /\ \A kv \in result.stage_timings : kv[2] = 0

\* C11: whenever a stage failed, by an error Result or by an
\* exception, the run's PipelineError names that stage, its
\* pipeline_context holds the run's pipeline_id, and its stage_errors holds
\* the underlying stage error
C11_StageErrorAlwaysKept ==
    \A i \in 1..Len(calls) :
        CallFailed(i) =>
            /\ result.error # None
            /\ result.error.failed_stage = Stages[i]
            /\ HasKey(result.error.pipeline_context, "pipeline_id")
            /\ Get(result.error.pipeline_context, "pipeline_id") = result.pipeline_id
            /\ Len(result.error.stage_errors) >= 1
            /\ CallReturnedError(i) =>
                   result.error.stage_errors[1] = calls[i].awaited.result.error

\* what the two failure branches of the stage executors build: the
\* PipelineError of a failed stage names that stage and holds the run's
\* pipeline_id; stage_errors is exactly the error the collaborator returned
\* when it returned one, and is empty when the collaborator raised, the
\* exception's text being kept in pipeline_context under "exception" and
\* nowhere else in pipeline_context
StageErrorKeptWhenReturned ==
    \A i \in 1..Len(calls) :
        CallFailed(i) =>
            /\ result.error # None
            /\ result.error.failed_stage = Stages[i]
            /\ HasKey(result.error.pipeline_context, "pipeline_id")
            /\ Get(result.error.pipeline_context, "pipeline_id") = result.pipeline_id
            /\ CallReturnedError(i) =>
                   /\ result.error.stage_errors = << calls[i].awaited.result.error >>
                   /\ ~HasKey(result.error.pipeline_context, "exception")
            /\ CallRaised(i) =>
                   /\ result.error.stage_errors = <<>>
                   /\ HasKey(result.error.pipeline_context, "exception")

\* C11 witness: the validator raised after a completed authentication; the
\* run's error names the stage and the pipeline_id, and its stage_errors is
\* empty
C11_Witness ==
    /\ CallRaised(2)
    /\ Finalized
    /\ result.error.failed_stage = "validation"
    /\ Get(result.error.pipeline_context, "pipeline_id") = result.pipeline_id
    /\ HasKey(result.error.pipeline_context, "exception")
    /\ result.error.stage_errors = <<>>

\* C12: once a run has started, stage_timings has an entry for exactly the
\* stages whose collaborator was called, however the call ended;
\* stages_completed is the stages whose call succeeded, a prefix of the
\* fixed order; and the timed stages are the completed ones plus at most
\* the one failed stage
C12_TimingsAndCompleted ==
    pc # "START" =>
        LET timed == { kv[1] : kv \in result.stage_timings }
            completed == { result.stages_completed[k] :
                             k \in 1..Len(result.stages_completed) }
            succeeded == { i \in 1..3 : CallSucceeded(i) }
        IN  /\ \A i \in 1..3 : (Stages[i] \in timed) <=> Called(i)
            /\ timed \subseteq { Stages[i] : i \in 1..3 }
            /\ \A kv \in result.stage_timings : kv[2] >= 0
            /\ result.stages_completed = SubSeq(Stages, 1, Cardinality(succeeded))
            /\ \A i \in 1..3 : (Stages[i] \in completed) <=> CallSucceeded(i)
            /\ completed \subseteq timed
            /\ Cardinality(timed \ completed) <= 1
            /\ \A i \in 1..3 : (Stages[i] \in timed \ completed) <=> CallFailed(i)

\* C12 witness: a run whose processor raised, with three timed stages and
\* two completed ones
C12_Witness ==
    /\ pc = "FAILED"
    /\ CallRaised(3)
    /\ Cardinality(result.stage_timings) = 3
    /\ result.stages_completed = << "authentication", "validation" >>

\* the steps of the run's state machine
RunTransitions ==
    { <<"START", "AUTHENTICATING">>,
      <<"AUTHENTICATING", "VALIDATING">>, <<"AUTHENTICATING", "FAILED">>,
      <<"VALIDATING", "PROCESSING">>, <<"VALIDATING", "FAILED">>,
      <<"PROCESSING", "COMPLETE">>, <<"PROCESSING", "FAILED">> }

\* the stage a state of the run executes
StageOf(state) ==
    CASE state = "AUTHENTICATING" -> "authentication"
      [] state = "VALIDATING" -> "validation"
      [] state = "PROCESSING" -> "processing"

\* one step of a run: along START -> AUTHENTICATING -> VALIDATING ->
\* PROCESSING -> COMPLETE or into FAILED with the stage just executed as
\* failed_stage; a stage step calls its collaborator once, and no stage is
\* called twice; nothing changes once the run is COMPLETE or FAILED
RunStep ==
    /\ <<pc, pc'>> \in RunTransitions
    /\ pc # "START" =>
          /\ Len(calls') = Len(calls) + 1
          /\ calls'[Len(calls')].fn = StageCalls[Len(calls')]
          /\ \A i, j \in 1..Len(calls') : calls'[i].fn = calls'[j].fn => i = j
    /\ pc' = "FAILED" => result'.error.failed_stage = StageOf(pc)
    /\ pc' = "COMPLETE" => result'.success

\* C13: every step of a run is a step of the linear state machine, each
\* stage is executed at most once, COMPLETE and FAILED are left by no
\* step, and a started run whose collaborator calls all return or raise
\* reaches COMPLETE or FAILED
C13_RunStateMachine ==
    /\ [][RunStep]_vars
    /\ (pc # "START") ~> Finalized

\* C13 witness: a run that went through all three stages and is COMPLETE
C13_Witness ==
    /\ pc = "COMPLETE"
    /\ [ i \in 1..Len(calls) |-> calls[i].fn ] = StageCalls
    /\ result.success

\* C14: the steps authenticate took are a prefix of format validation,
\* identity extraction, permission resolution, intersection, AuthContext
\* construction; every step before the last one taken ended well; when a
\* step failed no later step was taken and the call produced no
\* AuthContext; and an AuthContext is returned only after all five steps,
\* holding the intersection of the credential's and the resolved permissions
C14_AuthenticateOrder ==
    Called(1) =>
        LET steps == calls[1].steps
            n == Len(steps)
        IN  /\ n \in 1..Len(AuthenticateSteps)
            /\ \A i \in 1..n : steps[i].step = AuthenticateSteps[i]
            /\ \A i \in 1..(n - 1) : steps[i].outcome = "ok"
            /\ (\E i \in 1..n : steps[i].outcome # "ok") =>
                   /\ ~CallSucceeded(1)
                   /\ calls[1].awaited.result = None
                          \/ calls[1].awaited.result.value = None
                   /\ auth_context = None
            /\ CallSucceeded(1) =>
                   /\ n = Len(AuthenticateSteps)
                   /\ \A i \in 1..n : steps[i].outcome = "ok"
                   /\ calls[1].awaited.result.value.granted_permissions \in
                          compute_final_permissions(credentials.credential_permissions,
                                                    calls[1].resolved)
            /\ CallFailed(1) => n < 4

\* C14 witness: identity extraction returned an error after the credential
\* format was accepted; permission resolution was not reached
C14_Witness ==
    /\ CallReturnedError(1)
    /\ Len(calls[1].steps) = 2
    /\ calls[1].steps[1].outcome = "ok"
    /\ calls[1].steps[2] = [ step |-> "extract_user_identity", outcome |-> "error" ]
    /\ auth_context = None

\* the finalized result of a run started at t0 whose authenticate call,
\* ending at t1, returned the error of a rejected credential format
\* (fmt = "error") or of an unknown user (fmt = "ok", ident = "error")
AuthenticationFailureRun(creds, fmt, ident, t0, t1, short) ==
    LET authenticated == CHOOSE r \in authenticate(creds, fmt, ident, "ok", <<>>, t1) : TRUE
        stage == execute_authentication_stage(authenticated.awaited,
                                              create_pipeline_result(PipelineId, t0), t0, t1,
                                              short)
    IN  fail_run(stage.result, stage.ret.error, t1)

\* the stage_time of the authentication stage of the present run came out
\* under the whole milliseconds the stage took
AuthenticationFellShort ==
    Get(result.stage_timings, "authentication")
        < (result.completed_at - result.started_at) \div UsPerMs

\* the run that differs from the present one only in which check failed
MalformedCredentialRun ==
    AuthenticationFailureRun(credentials, "error", "ok", result.started_at, result.completed_at,
                             AuthenticationFellShort)
UnknownUserRun ==
    AuthenticationFailureRun(credentials, "ok", "error", result.started_at, result.completed_at,
                             AuthenticationFellShort)

\* the present run ended because the credential format was rejected or
\* because the user is unknown
FailedCheck ==
    /\ pc = "FAILED"
    /\ CallReturnedError(1)
    /\ Len(calls[1].steps) \in { 1, 2 }

\* C15 as stated: the result of a run ended by a rejected credential and
\* the result of the same run ended by an unknown user are the same, and
\* carry the tag "authentication_error"
C15_UniformFailureSignal ==
    FailedCheck =>
        /\ result \in { MalformedCredentialRun, UnknownUserRun }
        /\ MalformedCredentialRun = UnknownUserRun
        /\ result.error.stage_errors[1].error_type = "authentication_error"

\* what execute_authentication_stage makes of the two runs: both results
\* are a PipelineError tagged "pipeline_error" with failed_stage "authentication" around one stage
\* error tagged "authentication_error"; the message and stage_errors are
\* those of the error the authenticator returned, and the two results
\* agree in everything else
PassesAuthenticationErrorThrough ==
    FailedCheck =>
        LET this == IF Len(calls[1].steps) = 1 THEN MalformedCredentialRun
                    ELSE UnknownUserRun
            other == IF Len(calls[1].steps) = 1 THEN UnknownUserRun
                     ELSE MalformedCredentialRun
            auth_error == calls[1].awaited.result.error
        IN  /\ result = this
            /\ result.error.error_type = "pipeline_error"
            /\ result.error.failed_stage = "authentication"
            /\ result.error.pipeline_context = { <<"pipeline_id", result.pipeline_id>> }
            /\ result.error.stage_errors = << auth_error >>
            /\ auth_error.error_type = "authentication_error"
            /\ result.error.message = << "Authentication failed: ", auth_error.message >>
            /\ other.error.stage_errors[1].error_type = "authentication_error"
            /\ [ other EXCEPT !.error.message = result.error.message,
                              !.error.stage_errors = result.error.stage_errors ] = result

\* C15 witness: a run ended by an unknown user, whose result names the
\* cause in its message and in the reason of its stage error
C15_Witness ==
    /\ FailedCheck
    /\ Len(calls[1].steps) = 2
    /\ result.error.message[2] = "Unknown user"
    /\ result.error.stage_errors[1].auth_failure_reason = "unknown_user"
    /\ MalformedCredentialRun.error.message[2] = "Invalid signature"

\* the permissions another caller of the same validation may have been
\* granted
AlternativePermissions ==
    { <<>>, << chat >>, << memory_read >>, << tools_calculator >>,
      << chat, tools_calculator >> }

\* the processing_time_ms of the validate call of the run came out under
\* the whole milliseconds the call took
ValidationFellShort ==
    /\ CallSucceeded(2)
    /\ calls[2].awaited.result.value.processing_time_ms
           < (calls[2].ended - calls[2].started) \div UsPerMs

\* the validate call of the run, made again for a caller granted `perms`,
\* its float arithmetic falling as it did
ValidateAgainWith(perms) ==
    LET call == calls[2]
    IN  validate(call.raw_input,
                 [ call.auth_context EXCEPT !.granted_permissions = perms ],
                 call.collaborators[1], call.collaborators[2], call.collaborators[3],
                 call.started, call.ended, ValidationFellShort)

\* C16: the validate call of a run, made again with an AuthContext that
\* differs only in granted_permissions, ends the same way (the same error
\* or exception, or the same ValidatedInput: normalized_input,
\* content_type, detected_language, input_size_bytes), takes the same steps
\* on the same inputs, and is given the same size limits
C16_IndependentOfPermissions ==
    Called(2) =>
        \A perms \in AlternativePermissions :
            /\ ValidateAgainWith(perms).awaited = calls[2].awaited
            /\ ValidateAgainWith(perms).steps = calls[2].steps
            /\ get_size_limits([ calls[2].auth_context EXCEPT
                                   !.granted_permissions = perms ])
                   = get_size_limits(calls[2].auth_context)

\* C16 witness: "Calculate 2+2" validated for a caller granted chat and
\* tools.calculator, where a caller granted nothing is an alternative
C16_Witness ==
    /\ CallSucceeded(2)
    /\ calls[2].auth_context.granted_permissions = << chat, tools_calculator >>
    /\ calls[2].raw_input = DictInput({ <<"text", calculate_text>> })
    /\ ValidateAgainWith(<<>>).awaited.result.value.content_type = "text"

\* the validate call of the run, made a second time with the same raw input
\* and AuthContext, starting `wait` after the first ended and taking `d`
ValidateAgainAt(wait, d, short) ==
    LET call == calls[2]
    IN  validate(call.raw_input, call.auth_context,
                 call.collaborators[1], call.collaborators[2], call.collaborators[3],
                 call.ended + wait, call.ended + wait + d, short)

\* C17: a second validate call with the same raw input and AuthContext,
\* made later and taking another time, succeeds exactly when the first did
\* and then returns the same normalized_input and content_type; the two
\* ValidatedInputs differ at most in processing_time_ms
C17_ValidateIdempotent ==
    Called(2) =>
        \A wait \in Delays, d \in Delays, short \in BOOLEAN :
            LET second == ValidateAgainAt(wait, d, short).awaited
                first == calls[2].awaited
            IN  /\ OutcomeOf(second) = OutcomeOf(first)
                /\ CallSucceeded(2) =>
                      /\ second.result.value.normalized_input
                             = first.result.value.normalized_input
                      /\ second.result.value.content_type = first.result.value.content_type
                      /\ [ second.result.value EXCEPT
                             !.processing_time_ms = first.result.value.processing_time_ms ]
                             = first.result.value
                /\ ~CallSucceeded(2) => second = first

\* C17 witness: a validation that took a millisecond, while the same call
\* made again takes none: the timing differs and nothing else
C17_Witness ==
    /\ CallSucceeded(2)
    /\ calls[2].awaited.result.value.processing_time_ms = 1
    /\ ValidateAgainAt(600, 0, FALSE).awaited.result.value.processing_time_ms = 0
    /\ ValidateAgainAt(600, 0, FALSE).awaited.result.value.content_type = "command"

\* the text of a normalized input begins with "/" or "!"
IsCommandText(normalized_input) ==
    /\ HasKey(normalized_input, "text")
    /\ Get(normalized_input, "text") # <<>>
    /\ Get(normalized_input, "text")[1] \in { "/", "!" }

\* C18 as stated: content_type is "command" when the text begins with "/"
\* or "!", otherwise "text_with_attachments" when there is an attachments
\* key, otherwise "file_upload" when there is a file key, otherwise "text"
\* when there is a text key, otherwise "unknown"
C18_ContentTypePrecedence ==
    CallSucceeded(2) =>
        LET normalized_input == validated_input.normalized_input
            content_type == validated_input.content_type
        IN  /\ IsCommandText(normalized_input) => content_type = "command"
            /\ (~IsCommandText(normalized_input)
                /\ HasKey(normalized_input, "attachments"))
                   => content_type = "text_with_attachments"
            /\ (~IsCommandText(normalized_input)
                /\ ~HasKey(normalized_input, "attachments")
                /\ HasKey(normalized_input, "file"))
                   => content_type = "file_upload"
            /\ (~IsCommandText(normalized_input)
                /\ ~HasKey(normalized_input, "attachments")
                /\ ~HasKey(normalized_input, "file")
                /\ HasKey(normalized_input, "text"))
                   => content_type = "text"
            /\ (~HasKey(normalized_input, "attachments")
                /\ ~HasKey(normalized_input, "file")
                /\ ~HasKey(normalized_input, "text"))
                   => content_type = "unknown"

\* C18 as the code has it: with a text key, content_type is "command" when
\* the text begins with "/" or "!", otherwise "text_with_attachments" when
\* there is an attachments key, otherwise "text", whether or not there is a
\* file key; without a text key it is "file_upload" when there is a file
\* key and otherwise "unknown", whether or not there is an attachments key
C18_ContentTypeTextFirst ==
    CallSucceeded(2) =>
        LET normalized_input == validated_input.normalized_input
            content_type == validated_input.content_type
            has_text == HasKey(normalized_input, "text")
        IN  /\ IsCommandText(normalized_input) => content_type = "command"
            /\ (has_text /\ ~IsCommandText(normalized_input)
                /\ HasKey(normalized_input, "attachments"))
                   => content_type = "text_with_attachments"
            /\ (has_text /\ ~IsCommandText(normalized_input)
                /\ ~HasKey(normalized_input, "attachments"))
                   => content_type = "text"
            /\ (~has_text /\ HasKey(normalized_input, "file"))
                   => content_type = "file_upload"
            /\ (~has_text /\ ~HasKey(normalized_input, "file"))
                   => content_type = "unknown"
            /\ validated_input = calls[2].awaited.result.value

\* C18 witness: {"text": "hello", "file": "r.pdf"} validated as "text"
C18_Witness ==
    /\ CallSucceeded(2)
    /\ validated_input.normalized_input
           = { <<"text", hello_text>>, <<"file", report_pdf>> }
    /\ validated_input.content_type = "text"

\* C19: validate first runs validate_format on the raw input; validate_safety
\* is run only after validate_format succeeded, and on exactly the mapping
\* it returned; the ValidatedInput is built only after both succeeded, from
\* that same mapping; a failed step is the last step taken and leaves the
\* call without a ValidatedInput
C19_FormatBeforeSafety ==
    Called(2) =>
        LET steps == calls[2].steps
            n == Len(steps)
        IN  /\ n \in 1..3
            /\ steps[1].step = "validate_format"
            /\ steps[1].input = calls[2].raw_input
            /\ n >= 2 =>
                  /\ steps[1].outcome = "ok"
                  /\ steps[2].step = "validate_safety"
                  /\ steps[2].input = DictInput(validate_format(calls[2].raw_input))
            /\ n = 3 =>
                  /\ steps[2].outcome = "ok"
                  /\ steps[3].step = "create_validated_input"
                  /\ steps[3].input = steps[2].input
            /\ steps[1].outcome # "ok" => n = 1
            /\ CallSucceeded(2) <=> (n = 3)
            /\ CallSucceeded(2) =>
                   calls[2].awaited.result.value.normalized_input = steps[2].input.dict
            /\ ~CallSucceeded(2) =>
                  /\ steps[n].outcome # "ok"
                  /\ validated_input = None

\* C19 witness: the text "hello", sent as a str, passed format validation
\* and was rejected by safety validation, which was given {"text": "hello"}
C19_Witness ==
    /\ CallReturnedError(2)
    /\ calls[2].raw_input = StrInput(hello_text)
    /\ Len(calls[2].steps) = 2
    /\ calls[2].steps[2].input = DictInput({ <<"text", hello_text>> })
    /\ calls[2].awaited.result.error.validation_stage = "safety"
    /\ validated_input = None

\* C20: the raw input of a run is the same after validation as before,
\* whether validation succeeded or failed, and through the rest of the run;
\* the ValidatedInput's raw_input is the raw input as passed to validate;
\* and the normalized content of the ValidatedInput is the mapping safety
\* validation was given
C20_RawInputPreserved ==
    /\ [][pc # "START" => raw_input' = raw_input]_vars
    /\ [](Called(2) =>
            /\ calls[2].raw_input = raw_input
            /\ calls[2].steps[1].input = raw_input
            /\ CallSucceeded(2) =>
                  /\ validated_input.raw_input = raw_input
                  /\ calls[2].awaited.result.value.raw_input = raw_input
                  /\ validated_input.normalized_input = calls[2].steps[2].input.dict
                  /\ validated_input.input_size_bytes = _calculate_input_size(raw_input))

\* C20 witness: the str "hello" was validated; the ValidatedInput holds it
\* as the str it was, next to the mapping made from it
C20_Witness ==
    /\ CallSucceeded(2)
    /\ raw_input = StrInput(hello_text)
    /\ validated_input.raw_input = StrInput(hello_text)
    /\ validated_input.normalized_input = { <<"text", hello_text>> }
    /\ validated_input.input_size_bytes = 5

-----------------------------------------------------------------------------
(* Properties of the EventBuilder helpers, checked under SpecEvent *)

\* the helper fn was the last one called
Applied(fn) == applied # None /\ applied.fn = fn

\* the event type the rules of C21 give, `command` saying whether the
\* text counts as beginning with "/" or "!"
EventTypeBy(command, content_type, metadata) ==
    IF command THEN "input.command.text"
    ELSE IF content_type = "file_upload" THEN "input.file.processed"
    ELSE IF "attachments" \in { kv[1] : kv \in metadata }
    THEN "input.message.with_attachments"
    ELSE "input.message.text"

\* the first character of s is "/" or "!"
BeginsWithCommandMark(s) == s # <<>> /\ s[1] \in { "/", "!" }

\* the characters of s from its first character that is not a blank
RECURSIVE FromFirstNonBlank(_)
FromFirstNonBlank(s) ==
    IF s = <<>> \/ s[1] # " " THEN s ELSE FromFirstNonBlank(SubSeq(s, 2, Len(s)))

\* C21 as stated: the event type is the command event when the text begins
\* with "/" or "!", otherwise the file event when the content type is
\* "file_upload", otherwise the attachment event when the content metadata
\* has an attachments key, otherwise the plain message event
C21_EventTypePrecedence ==
    Applied("determine_event_type") =>
        applied.value
            = EventTypeBy(BeginsWithCommandMark(applied.content.text),
                          applied.processing_context.validated_input.content_type,
                          applied.content.metadata)

\* C21 as the code has it: the same precedence, the text counting as a
\* command when its first character after the leading blanks is "/" or "!"
C21_EventTypePrecedenceStripped ==
    Applied("determine_event_type") =>
        applied.value
            = EventTypeBy(BeginsWithCommandMark(FromFirstNonBlank(applied.content.text)),
                          applied.processing_context.validated_input.content_type,
                          applied.content.metadata)

\* C21 witness: " /help", with a blank before the mark, in a file upload
\* that has attachments, gives the command event
C21_Witness ==
    /\ Applied("determine_event_type")
    /\ applied.content.text = <<" ">> \o help_text
    /\ applied.processing_context.validated_input.content_type = "file_upload"
    /\ HasKey(applied.content.metadata, "attachments")
    /\ applied.value = "input.command.text"

\* an optional id is set: neither None nor the empty str
IsSet(id) == id # NoneStr /\ Len(id) > 0

\* C22: the stream_id is the processing context's stream_id when that is
\* set; otherwise the AuthContext's session_id when that is set; otherwise
\* "stream_" followed by the first eight characters of the new event_id;
\* and event_id and trace_id are the two new ids
C22_StreamIdPrecedence ==
    Applied("generate_event_ids") =>
        LET stream_id == applied.processing_context.stream_id
            session_id == applied.processing_context.auth_context.session_id
            ids == applied.value
        IN  /\ IsSet(stream_id) => ids.stream_id = stream_id
            /\ (~IsSet(stream_id) /\ IsSet(session_id)) => ids.stream_id = session_id
            /\ (~IsSet(stream_id) /\ ~IsSet(session_id)) =>
                  /\ Len(ids.stream_id) = 15
                  /\ SubSeq(ids.stream_id, 1, 7) = <<"s","t","r","e","a","m","_">>
                  /\ SubSeq(ids.stream_id, 8, 15) = SubSeq(ids.event_id, 1, 8)
            /\ ids.event_id = applied.uuids[1]
            /\ ids.trace_id = applied.uuids[2]

\* C22 witness: both ids are set and the stream id of the processing
\* context is the one used
C22_Witness ==
    /\ Applied("generate_event_ids")
    /\ applied.processing_context.stream_id = <<"stream_42">>
    /\ applied.processing_context.auth_context.session_id = <<"sess_abc">>
    /\ applied.value.stream_id = <<"stream_42">>

\* C23: process first builds the ProcessingContext, then calls
\* normalize_content, then build_event; build_event is called only after
\* normalize_content succeeded; and what process gives (an event, an error
\* or an exception) is what the last step taken gave, so a returned error
\* is the error of the step that failed
C23_ProcessOrder ==
    Called(3) =>
        LET steps == calls[3].steps
            n == Len(steps)
        IN  /\ n \in 2..3
            /\ steps[1].step = "create_processing_context"
            /\ steps[2].step = "normalize_content"
            /\ n = 3 =>
                  /\ OutcomeOf(steps[2].awaited) = "ok"
                  /\ steps[3].step = "build_event"
            /\ OutcomeOf(steps[2].awaited) # "ok" => n = 2
            /\ calls[3].awaited = steps[n].awaited
            /\ CallReturnedError(3) =>
                  /\ calls[3].awaited.result.error = steps[n].awaited.result.error
                  /\ n = 2 => calls[3].awaited.result.error.processing_stage
                                  \in { "normalization", "text_extraction" }
                  /\ n = 3 => calls[3].awaited.result.error.processing_stage
                                  = "event_creation"
            /\ CallSucceeded(3) => n = 3

\* C23 witness: normalize_content returned an error and build_event was
\* not called; process returned that error
C23_Witness ==
    /\ CallReturnedError(3)
    /\ Len(calls[3].steps) = 2
    /\ calls[3].steps[2].awaited.result.error.processing_stage = "normalization"
    /\ result.error.stage_errors[1].processing_stage = "normalization"

\* what create_event_context copies from the AuthContext, whatever the
\* adapter context holds
EventContextCopiesAuth ==
    Applied("create_event_context") =>
        LET auth == applied.processing_context.auth_context
        IN  /\ applied.value.user_id = auth.user_id
            /\ applied.value.source_type = auth.source_type
            /\ applied.value.source_id = auth.source_id
            /\ applied.value.permissions = auth.granted_permissions
            /\ applied.processing_context.adapter_context \subseteq applied.value.metadata

\* the metadata keys that create_event_context writes itself
RecordedKeys == { "processing_pipeline", "authentication_method", "processing_time_ms" }

\* an adapter context with none of the keys create_event_context writes
\* leaves the recorded step list and authentication method in place
EventContextRecordsWithoutCollision ==
    ( /\ Applied("create_event_context")
      /\ \A kv \in applied.processing_context.adapter_context : kv[1] \notin RecordedKeys )
    => LET auth == applied.processing_context.auth_context
           metadata == applied.value.metadata
       IN  /\ Get(metadata, "processing_pipeline")
                  = applied.processing_context.processing_steps
           /\ Get(metadata, "authentication_method")
                  = GetOr(auth.auth_metadata, "method", <<"unknown">>)

\* C24: the EventContext copies user_id, source_type, source_id and the
\* granted permissions from the AuthContext, and for every adapter_context
\* its metadata holds the processing step list under "processing_pipeline"
\* and the authentication method (or "unknown") under
\* "authentication_method", with the adapter_context entries alongside
C24_EventContextRecords ==
    Applied("create_event_context") =>
        LET auth == applied.processing_context.auth_context
            metadata == applied.value.metadata
        IN  /\ EventContextCopiesAuth
            /\ Get(metadata, "processing_pipeline")
                   = applied.processing_context.processing_steps
            /\ Get(metadata, "authentication_method")
                   = GetOr(auth.auth_metadata, "method", <<"unknown">>)
            /\ applied.processing_context.adapter_context \subseteq metadata

\* C24 witness: an adapter context that holds "authentication_method"
\* itself; the metadata then holds the adapter's value, not the method the
\* authenticator recorded
C24_Witness ==
    /\ Applied("create_event_context")
    /\ HasKey(applied.processing_context.adapter_context, "authentication_method")
    /\ HasKey(applied.processing_context.auth_context.auth_metadata, "method")
    /\ Get(applied.value.metadata, "authentication_method") = <<"spoofed">>

-----------------------------------------------------------------------------
(* Properties of the capability registry, checked under SpecRegistry *)

\* a lookup of the function fn has been made, and the registry is as the
\* lookup found it
LookedUp(fn) == lookup # None /\ lookup.fn = fn

\* the registered providers that support every capability in required
Qualifying(required) ==
    { p \in Elements(providers) :
        \A i \in DOMAIN required : supports_capability(p, required[i]) }

\* the preferred providers of the lookup, when a preference was given
Preferred == IF lookup.preferred_providers = None THEN {}
             ELSE Elements(lookup.preferred_providers.list)

\* the providers left after the requirement filter and the preference
\* filter
Remaining(required) ==
    IF Qualifying(required) \cap Preferred # {}
    THEN Qualifying(required) \cap Preferred
    ELSE Qualifying(required)

\* every capability of every registered provider is indexed, and nothing
\* else is: no registration or unregistration is partly applied
RegistryApplied ==
    \A c \in CapabilityNames, p \in ProviderIds :
        p \in Elements(by_capability[c])
            <=> ( p \in Elements(providers) /\ supports_capability(p, c) )

\* what find_best_provider_for_requirements returns for a list of
\* requirements that is not empty, on a registry in which no registration
\* or unregistration is partly applied
BestProviderForRequirements ==
    ( LookedUp("find_best_provider_for_requirements")
      /\ lookup.required_capabilities # <<>>
      /\ RegistryApplied )
    => LET qualifying == Qualifying(lookup.required_capabilities)
       IN  /\ lookup.value # NoneStr => lookup.value \in qualifying
           /\ qualifying = {} => lookup.value = NoneStr
           /\ qualifying # {} => lookup.value \in Remaining(lookup.required_capabilities)

\* with no requirement the function returns None, whatever is registered
NoRequirementNoProvider ==
    ( LookedUp("find_best_provider_for_requirements")
      /\ lookup.required_capabilities = <<>> )
    => lookup.value = NoneStr

\* C25: find_best_provider_for_requirements(required, preferred) returns a
\* provider only if it supports every capability in required, returns None
\* when no registered provider supports all of them, returns a member of
\* preferred whenever a preferred provider supports all of them, and a
\* qualifying provider that is not preferred otherwise
C25_BestProviderQualifies ==
    LookedUp("find_best_provider_for_requirements") =>
        LET qualifying == Qualifying(lookup.required_capabilities)
        IN  /\ lookup.value # NoneStr => lookup.value \in qualifying
            /\ qualifying = {} => lookup.value = NoneStr
            /\ qualifying \cap Preferred # {} => lookup.value \in Preferred
            /\ (qualifying # {} /\ qualifying \cap Preferred = {})
                   => lookup.value \in qualifying

\* C25 witness: nothing is required, a preferred provider is registered,
\* and the function returns None
C25_Witness ==
    /\ LookedUp("find_best_provider_for_requirements")
    /\ lookup.required_capabilities = <<>>
    /\ Preferred \cap Elements(providers) # {}
    /\ lookup.value = NoneStr

\* C32: with an empty list of required capabilities,
\* find_best_provider_for_requirements returns None, whatever providers
\* are registered and whatever preference is given
C32_NothingRequiredGivesNone ==
    ( LookedUp("find_best_provider_for_requirements")
      /\ lookup.required_capabilities = <<>> )
    => /\ lookup.value = NoneStr
       /\ Qualifying(lookup.required_capabilities) = Elements(providers)

\* C32 witness: three providers are registered, two of them preferred,
\* nothing is required, and None is returned
C32_Witness ==
    /\ LookedUp("find_best_provider_for_requirements")
    /\ lookup.required_capabilities = <<>>
    /\ Len(providers) = 3
    /\ lookup.preferred_providers = ListOf(<< webhook_adapter, api_adapter >>)
    /\ lookup.value = NoneStr

\* the number of capabilities of a provider
TotalCapabilities(provider_id) == Len(ProviderCapabilities(provider_id))

\* the place of a registered provider in the registration order
RegisteredAt(provider_id) == CHOOSE i \in DOMAIN providers : providers[i] = provider_id

\* C26: among the providers that remain after the requirement and the
\* preference filters, find_best_provider_for_requirements returns the one
\* with the most capabilities, and among those with the most the one that
\* registered first
C26_MostCapableFirst ==
    ( LookedUp("find_best_provider_for_requirements")
      /\ lookup.value # NoneStr )
    => \A other \in Remaining(lookup.required_capabilities) :
          \/ TotalCapabilities(other) < TotalCapabilities(lookup.value)
          \/ /\ TotalCapabilities(other) = TotalCapabilities(lookup.value)
             /\ RegisteredAt(lookup.value) <= RegisteredAt(other)

\* C26 witness: the provider returned has fewer capabilities than another
\* provider that remains after the filters
C26_Witness ==
    /\ LookedUp("find_best_provider_for_requirements")
    /\ lookup.value # NoneStr
    /\ \E other \in Remaining(lookup.required_capabilities) :
          TotalCapabilities(other) > TotalCapabilities(lookup.value)

\* what the readers-writer discipline of the abstract methods gives: at
\* most one task is inside register_provider or unregister_provider, none
\* while a task holds the registry for lookups, and
\* find_providers_with_capability and get_system_capabilities return what
\* a registry with nothing partly applied holds
LockedLookupsExcluded ==
    /\ Cardinality(Writers) <= 1
    /\ Writers # {} => reading = {}
    /\ ( LookedUp("find_providers_with_capability") \/ LookedUp("get_system_capabilities") )
           => /\ lookup.task \in reading
              /\ RegistryApplied
    /\ LookedUp("find_providers_with_capability") =>
           Elements(lookup.value) =
               { p \in Elements(providers) : supports_capability(p, lookup.capability_name) }
    /\ LookedUp("get_system_capabilities") =>
           \A c \in CapabilityNames, p \in Elements(providers) :
               supports_capability(p, c) =>
                   \E kv \in lookup.value : kv[1] = c /\ p \in Elements(kv[2])

\* C27: register_provider and unregister_provider are mutually exclusive
\* with lookups: no two writers run at once, and no lookup
\* (find_providers_with_capability, get_system_capabilities,
\* find_best_provider_for_requirements) is made while a task is inside a
\* registration or an unregistration, or reads a registry in which one is
\* partly applied
C27_RegistryExclusion ==
    /\ Cardinality(Writers) <= 1
    /\ Writers # {} => reading = {}
    /\ lookup # None => /\ Writers = {}
                        /\ RegistryApplied

\* C27 witness: while a task is inside register_provider, the provider
\* recorded and only a part of its capabilities indexed, another task calls
\* find_best_provider_for_requirements for capabilities the provider
\* supports and is given None
C27_Witness ==
    /\ LookedUp("find_best_provider_for_requirements")
    /\ lookup.task \notin Writers
    /\ lookup.required_capabilities # <<>>
    /\ lookup.value = NoneStr
    /\ ~RegistryApplied
    /\ \E task \in Writers :
          /\ writing[task].op = "register_provider"
          /\ writing[task].todo # <<>>
          /\ Len(writing[task].todo) < Len(ProviderCapabilities(writing[task].provider_id))
          /\ writing[task].provider_id \in Qualifying(lookup.required_capabilities)

-----------------------------------------------------------------------------
(* Properties of two concurrent runs, checked under SpecRuns *)

\* the runs whose PipelineResult has been created
Started == { r \in RunIds : runs[r].result # 0 }

\* the PipelineResult object of a started run
ResultOf(r) == results[runs[r].result]

\* C28: two runs on one pipeline are independent: each has a
\* PipelineResult object of its own, and at every point of every
\* interleaving the object of a run holds its pipeline_id and exactly the
\* stage_timings, stages_completed, event and error that its own stages
\* produced
C28_RunsIndependent ==
    /\ \A r, s \in Started : r # s => runs[r].result # runs[s].result
    /\ \A r \in Started :
          /\ ResultOf(r) = runs[r].alone
          /\ ResultOf(r).pipeline_id = RunPipelineId(r)
          /\ ResultOf(r).error # None =>
                 Get(ResultOf(r).error.pipeline_context, "pipeline_id") = RunPipelineId(r)
          /\ ResultOf(r).event # None => runs[r].pc = "COMPLETE"
          /\ \A kv \in ResultOf(r).stage_timings :
                 kv[1] \in { "authentication", "validation", "processing" }
          /\ Len(ResultOf(r).stages_completed)
                 = CASE runs[r].pc = "AUTHENTICATING" -> 0
                     [] runs[r].pc = "VALIDATING" -> 1
                     [] runs[r].pc = "PROCESSING" -> 2
                     [] runs[r].pc = "COMPLETE" -> 3
                     [] runs[r].pc = "FAILED" -> Cardinality(ResultOf(r).stage_timings) - 1

\* C28 witness: run 2 began and failed in validation while run 1 awaited
\* its authenticator; run 1 then completed with its three stages
C28_Witness ==
    /\ runs[1].pc = "COMPLETE"
    /\ runs[2].pc = "FAILED"
    /\ ResultOf(1).stages_completed = << "authentication", "validation", "processing" >>
    /\ ResultOf(2).stages_completed = << "authentication" >>
    /\ ResultOf(2).error.failed_stage = "validation"
    /\ Get(ResultOf(1).stage_timings, "authentication") = 1
    /\ Get(ResultOf(2).stage_timings, "authentication") = 0
    /\ ResultOf(2).started_at = 0
    /\ ResultOf(2).completed_at < ResultOf(1).completed_at

-----------------------------------------------------------------------------
(* Properties of InputPipeline.health_check, checked under SpecEvent *)

\* the entries of the mapping for one of the two components that report
\* sub-results: the sub-results under prefixed keys when its check
\* returned, the component's own name with false when its check raised
ReportedUnder(name, prefix, component) ==
    IF component.raised THEN { << <<name>>, FALSE >> }
    ELSE Prefixed(prefix, component.health)

\* C29: health_check never raises; the mapping it returns reports the
\* authenticator under "authenticator", the sub-results of validator and
\* processor under keys prefixed "validator_" and "processor_", and a
\* component whose check raised as false under its own name, the entries
\* of the other components being what they are when it does not raise
C29_HealthCheckReportsAll ==
    Applied("health_check") =>
        /\ ~applied.value.raised
        /\ applied.value.health_status =
               { << <<"authenticator">>,
                    IF applied.authenticator.raised THEN FALSE
                    ELSE applied.authenticator.health >> }
               \cup ReportedUnder("validator", "validator_", applied.validator)
               \cup ReportedUnder("processor", "processor_", applied.processor)
        /\ \E kv \in applied.value.health_status : kv[1] = <<"authenticator">>
        /\ \E kv \in applied.value.health_status :
               kv[1][1] \in { "validator", "validator_" }
        /\ \E kv \in applied.value.health_status :
               kv[1][1] \in { "processor", "processor_" }
        /\ \A kv \in applied.value.health_status :
               Cardinality({ e \in applied.value.health_status : e[1] = kv[1] }) = 1

\* C29 witness: the authenticator's and the processor's checks raise, the
\* validator's returns one unhealthy part; all three are reported
C29_Witness ==
    /\ Applied("health_check")
    /\ applied.authenticator.raised
    /\ applied.processor.raised
    /\ ~applied.validator.raised
    /\ Get(applied.value.health_status, <<"authenticator">>) = FALSE
    /\ Get(applied.value.health_status, <<"processor">>) = FALSE
    /\ Get(applied.value.health_status, <<"validator_", "format_validator">>) = TRUE
    /\ Get(applied.value.health_status, <<"validator_", "safety_validator">>) = FALSE

-----------------------------------------------------------------------------
(* Properties of CapabilityProvider.validate_capability_requirements,
   checked under SpecEvent *)

\* the capabilities that name needs, directly or through other
\* capabilities of the provider: n steps along the dependencies
RECURSIVE NeededWithin(_, _, _)
NeededWithin(capabilities, names, n) ==
    IF n = 0 THEN names
    ELSE NeededWithin(capabilities,
                      names \cup UNION { Elements(get_capability_dependencies(capabilities, c)) :
                                           c \in names },
                      n - 1)

\* the required capabilities with everything they depend on, dependencies
\* of dependencies included
NeededTransitively(capabilities, required) ==
    NeededWithin(capabilities, Elements(required), Len(capabilities) + 1)

\* the required capabilities with what they depend on directly
NeededDirectly(capabilities, required) ==
    NeededWithin(capabilities, Elements(required), 1)

\* C31 as stated: the list is empty exactly when every required capability
\* and everything it depends on, dependencies of dependencies included, is
\* supported
C31_EmptyIffSatisfiedTransitively ==
    Applied("validate_capability_requirements") =>
        ( applied.value = <<>>
            <=> \A c \in NeededTransitively(applied.capabilities,
                                            applied.required_capabilities) :
                    supports(applied.capabilities, c) )

\* C31: the list is empty exactly when every required capability is
\* supported and so is every capability it depends on directly; otherwise
\* it names each unsupported required capability, and for each supported
\* one each unsupported direct dependency, and nothing else
C31_EmptyIffSatisfiedDirectly ==
    Applied("validate_capability_requirements") =>
        LET capabilities == applied.capabilities
            required == applied.required_capabilities
        IN  /\ applied.value = <<>>
                 <=> \A c \in NeededDirectly(capabilities, required) :
                         supports(capabilities, c)
            /\ Elements(applied.value) =
                 { << c >> : c \in { r \in Elements(required) : ~supports(capabilities, r) } }
                 \cup UNION { { RequiresText(c, dep) :
                                  dep \in { x \in Elements(get_capability_dependencies(
                                                               capabilities, c)) :
                                              ~supports(capabilities, x) } } :
                              c \in { r \in Elements(required) : supports(capabilities, r) } }

\* C31 witness: document_parsing is required of a provider that supports it
\* and its dependency file_attachments, but not text_processing, on which
\* file_attachments depends; the list is empty
C31_Witness ==
    /\ Applied("validate_capability_requirements")
    /\ applied.required_capabilities = << "document_parsing" >>
    /\ supports(applied.capabilities, "file_attachments")
    /\ ~supports(applied.capabilities, "text_processing")
    /\ applied.value = <<>>

-----------------------------------------------------------------------------
(* Properties of the ids of an event, checked under Spec *)

\* "stream_" followed by the first eight characters of the event id
DerivedStreamId(event_id) == <<"s","t","r","e","a","m","_">> \o SubSeq(event_id, 1, 8)

\* C33: the AuthContext made by create_auth_context carries no session_id
\* and the ProcessingContext made by create_processing_context no
\* stream_id; so the stream_id of every event built from them is "stream_"
\* with the first eight characters of its event_id, and the session_id of
\* its EventContext is the user_id
C33_DerivedStreamAndSession ==
    /\ auth_context # None => auth_context.session_id = NoneStr
    /\ (auth_context # None /\ validated_input # None) =>
           \A adapter_context \in AdapterContexts :
               create_processing_context(validated_input, auth_context,
                                         adapter_context, now).stream_id = NoneStr
    /\ (result # None /\ result.event # None) =>
           /\ result.event.stream_id = DerivedStreamId(result.event.event_id)
           /\ result.event.context.session_id = auth_context.user_id
           /\ result.event.context.user_id = auth_context.user_id

\* C33 witness: a run has built an event; its stream is derived from the
\* event id and its session is the user
C33_Witness ==
    /\ pc = "COMPLETE"
    /\ result.event.event_id = <<"0","0","0","0","0","0","0","1","-","b">>
    /\ result.event.stream_id = <<"s","t","r","e","a","m","_","0","0","0","0","0","0","0","1">>
    /\ result.event.context.session_id = user_12345

-----------------------------------------------------------------------------
\* the MVP server with its requests interleaved
InitServer ==
    /\ InitServerVars
    /\ InitPermVars
    /\ InitPipeVars
    /\ InitEventVars
    /\ InitRegistryVars
    /\ InitRunVars

SpecServer == InitServer /\ [][NextServer]_vars

-----------------------------------------------------------------------------
\* the signature of a webhook request is missing or is not the digest of
\* its payload
BadSignature(payload, x_signature) == ~Truthy(x_signature) \/ x_signature # hexdigest(payload)

\* a webhook request leaves the bus, the memory and the identifiers alone
Untouched ==
    /\ subscribers' = subscribers
    /\ event_history' = event_history
    /\ _items' = _items
    /\ next_id' = next_id

\* a webhook request with a bad signature touches nothing, whatever it is
\* answered
BadSignatureTouchesNothing ==
    [][ \A r \in RequestIds, payload \in Payloads, caller \in Callers :
          \A x_signature \in Signatures(payload) :
              BadSignature(payload, x_signature) /\ Webhook(r, payload, x_signature, caller[1], caller[2])
                  => Untouched ]_vars

\* a webhook request with a bad signature of ASCII characters, or with
\* none, is answered "invalid_signature"
AsciiBadSignatureRejected ==
    [][ \A r \in RequestIds, payload \in Payloads, caller \in Callers :
          \A x_signature \in Signatures(payload) :
              /\ BadSignature(payload, x_signature)
              /\ IsAscii(x_signature)
              /\ Webhook(r, payload, x_signature, caller[1], caller[2])
              => requests'[r].reply = [ status |-> "error", reason |-> << "invalid_signature" >> ] ]_vars

\* C34: a webhook request whose signature is missing or does not match the
\* HMAC of the payload is answered with the error "invalid_signature" and
\* nothing else happens: no event is created or published, the bus history
\* and the memory store are unchanged, no response handler is subscribed
C34_BadSignatureRejected ==
    [][ \A r \in RequestIds, payload \in Payloads, caller \in Callers :
          \A x_signature \in Signatures(payload) :
              BadSignature(payload, x_signature) /\ Webhook(r, payload, x_signature, caller[1], caller[2])
                  => /\ requests'[r].reply = [ status |-> "error", reason |-> << "invalid_signature" >> ]
                     /\ requests'[r].event = None
                     /\ Untouched ]_vars

\* a webhook request was answered "invalid_signature" after another request was served
C34_Witness ==
    \E r \in RequestIds :
        /\ requests[r].reply = [ status |-> "error", reason |-> << "invalid_signature" >> ]
        /\ event_history # <<>>

-----------------------------------------------------------------------------
\* the places of the history that hold a response to the input event at place i
ResponsesTo(i) ==
    { j \in 1..Len(event_history) :
        /\ event_history[j].event_type = "orchestrator.response.ready"
        /\ event_history[j].trace_id = event_history[i].trace_id }

\* the request whose adapter made the input event at place i has returned
Served(i) ==
    \E r \in RequestIds : requests[r].pc = "done" /\ requests[r].event = event_history[i]

\* the memory holds the "User: ..." item of the input event before the
\* "Assistant: ..." item of its response
StoredInOrder(input, response) ==
    \E a, b \in 1..Len(_items) :
        /\ a < b
        /\ _items[a].text = user_prefix \o input.content.text
        /\ _items[b].text = assistant_prefix \o response.content.text
        /\ _items[a].user_id = input.context.user_id /\ _items[a].session_id = input.context.session_id
        /\ _items[b].user_id = input.context.user_id /\ _items[b].session_id = input.context.session_id
        /\ input.timestamp < _items[a].timestamp
        /\ _items[b].timestamp < response.timestamp

\* C35: for every "input.message.received" event published on the bus the
\* orchestrator publishes exactly one "orchestrator.response.ready" event,
\* once _on_input has run to its end and never more than one; the response
\* carries the stream_id, the trace_id and the context of the input event and
\* stands behind it in the bus history, and the memory store holds the
\* "User: ..." item of the event before its "Assistant: ..." item
C35_OneResponsePerInput ==
    /\ \A i \in 1..Len(event_history) :
          event_history[i].event_type = "input.message.received" =>
              /\ Cardinality(ResponsesTo(i)) <= 1
              /\ Served(i) => Cardinality(ResponsesTo(i)) = 1
              /\ \A j \in ResponsesTo(i) :
                    /\ i < j
                    /\ event_history[j].stream_id = event_history[i].stream_id
                    /\ event_history[j].context = event_history[i].context
                    /\ StoredInOrder(event_history[i], event_history[j])
    /\ \A j \in 1..Len(event_history) :
          event_history[j].event_type = "orchestrator.response.ready" =>
              \E i \in 1..Len(event_history) :
                  event_history[i].event_type = "input.message.received" /\ j \in ResponsesTo(i)

\* two requests were served, the second one while the first one was
\* suspended: the history holds input, input, response, response
C35_Witness ==
    /\ Len(event_history) = 4
    /\ event_history[1].event_type = "input.message.received"
    /\ event_history[2].event_type = "input.message.received"
    /\ event_history[3].trace_id = event_history[2].trace_id
    /\ event_history[4].trace_id = event_history[1].trace_id
    /\ \A r \in RequestIds : requests[r].pc = "done"

-----------------------------------------------------------------------------
\* C36: when bus.publish(event) returns in a /chat request (and in a
\* /webhook request), response_text is set and it is the response the
\* orchestrator generated for the message of this request, whatever other
\* requests ran while the request was suspended at a tool or at the AI
\* adapter
C36_OwnResponseCaptured ==
    [][ \A r \in RequestIds :
          requests[r].pc # "done" /\ requests'[r].pc = "done" /\ requests'[r].event # None =>
              /\ requests'[r].response_text # NoneStr
              /\ requests'[r].response_text = requests'[r].generated
              /\ \E j \in 1..Len(event_history') :
                    /\ event_history'[j].event_type = "orchestrator.response.ready"
                    /\ event_history'[j].trace_id = requests'[r].event.trace_id
                    /\ event_history'[j].content.text = requests'[r].response_text
              /\ requests'[r].reply.response =
                    IF requests'[r].endpoint = "chat" /\ requests'[r].generated = <<>>
                    THEN << "Unexpected error: no response generated" >>
                    ELSE requests'[r].generated ]_vars

\* a request returned its own response although its handler was called with
\* the response of another request while it was suspended
C36_Witness ==
    \E r \in RequestIds :
        /\ requests[r].pc = "done"
        /\ requests[r].endpoint = "chat"
        /\ Len(requests[r].captured) >= 2
        /\ requests[r].captured[1].trace_id # requests[r].event.trace_id
        /\ requests[r].captured[1].content.text # requests[r].generated
        /\ requests[r].reply.response = requests[r].generated

-----------------------------------------------------------------------------
\* the requests suspended inside bus.publish(event), and the requests whose
\* adapter made an event
InFlight == { r \in RequestIds : requests[r].pc \in { "tool", "ai" } }
Accepted == { r \in RequestIds : requests[r].event # None }

\* what the bus does with the capture handlers: every accepted request has
\* left one handler behind, in the order of arrival, served or not
HandlersAccumulate ==
    /\ Len(subscribers["orchestrator.response.ready"]) = Cardinality(Accepted)
    /\ \A r \in Accepted : \E k \in 1..Len(subscribers["orchestrator.response.ready"]) :
           subscribers["orchestrator.response.ready"][k] = capture_response(r)

\* C37: the capture handler of a request is called only with the response
\* event of that request, and the handlers subscribed to
\* "orchestrator.response.ready" do not grow in number with the requests
\* already served: only the requests still under way have one
C37_HandlerSeesOwnResponseOnly ==
    /\ \A r \in RequestIds : \A k \in 1..Len(requests[r].captured) :
           requests[r].captured[k].trace_id = requests[r].event.trace_id
    /\ Len(subscribers["orchestrator.response.ready"]) <= Cardinality(InFlight)

\* the handler of a request that has returned was called with the response
\* of a later request, and both handlers are still subscribed
C37_Witness ==
    \E r, q \in RequestIds :
        /\ r < q
        /\ requests[r].pc = "done" /\ requests[q].pc = "done"
        /\ requests[r].event # None /\ requests[q].event # None
        /\ requests[r].reply.response # requests[r].response_text
        /\ requests[r].response_text = requests[q].generated
        /\ Len(subscribers["orchestrator.response.ready"]) = 2

-----------------------------------------------------------------------------
\* the step in which request r arrives, is accepted and is suspended at
\* ai.generate: _items is the memory before the request, _items' the memory
\* with the "User: ..." item of the request
ReachesAi(r) == requests[r].pc = "idle" /\ requests'[r].pc = "ai"

\* the session whose memory the fallback of request r reads
SessionRead(r) ==
    IF Truthy(requests'[r].event.context.session_id) THEN requests'[r].event.context.session_id ELSE <<>>

\* what the code passes to the adapter: the session's recent memory as it is
\* when the list is built, the item of the request itself included
MessagesFromMemoryWithOwnItem ==
    [][ \A r \in RequestIds : ReachesAi(r) =>
          requests'[r].awaiting.messages =
              << system_message >>
              \o memory_messages(Reversed(recent_for_session(_items', SessionRead(r), SessionLimit)))
              \o << [ role |-> "user", content |-> requests'[r].text ] >> ]_vars

\* C38: the message list passed to the AI adapter is the system message,
\* then the recent memory of the session oldest first, then the message of
\* the request, which stands in the list once: the memory part holds what
\* the session held before the request
C38_CurrentMessageOnce ==
    [][ \A r \in RequestIds : ReachesAi(r) =>
          requests'[r].awaiting.messages =
              << system_message >>
              \o memory_messages(Reversed(recent_for_session(_items, SessionRead(r), SessionLimit)))
              \o << [ role |-> "user", content |-> requests'[r].text ] >> ]_vars

\* the first request of a session is suspended at ai.generate with its
\* message twice in the list
C38_Witness ==
    \E r \in RequestIds :
        /\ requests[r].pc = "ai"
        /\ requests[r].event.context.session_id = session_1
        /\ requests[r].awaiting.messages =
               << system_message, [ role |-> "user", content |-> other_message ], [ role |-> "user", content |-> other_message ] >>

-----------------------------------------------------------------------------
\* the step in which request r arrives with the message "what do you
\* remember" and is answered: the memory the reply is built from is the
\* memory before the request and the "User: ..." item of the request
Recalls(r) ==
    /\ requests[r].pc = "idle" /\ requests'[r].pc = "done"
    /\ requests'[r].event # None
    /\ requests'[r].event.content.text = recall_message
MemoryRead == SubSeq(_items', 1, Len(_items) + 1)

\* the reply that lists these texts
RecallReply(texts) ==
    IF texts = <<>> THEN << "I don't have any specific memories yet." >>
    ELSE << "Here's what I remember from our recent interaction:", "\n" >> \o join_lines(texts)

\* the texts of the last RecallLimit items stored under user_id
TextsOf(user_id) ==
    LET memories == list_for_user(MemoryRead, user_id)
    IN LastN([ i \in 1..Len(memories) |-> memories[i].text ], RecallLimit)

\* what the code replies: the items stored under the user_id of the
\* request, and the items stored under the empty user_id when the request
\* has none
RecallReadsUserOrEmpty ==
    [][ \A r \in RequestIds : Recalls(r) =>
          requests'[r].generated =
              RecallReply(TextsOf(IF Truthy(requests'[r].event.context.user_id)
                                  THEN requests'[r].event.context.user_id ELSE <<>>)) ]_vars

\* C39: the reply to "what do you remember" lists only items stored with
\* the user_id of the requesting event, the 5 most recently stored at most,
\* and a request without a user_id is shown no stored item
C39_RecallOwnItemsOnly ==
    [][ \A r \in RequestIds : Recalls(r) =>
          requests'[r].generated =
              IF requests'[r].event.context.user_id = NoneStr THEN RecallReply(<<>>)
              ELSE RecallReply(TextsOf(requests'[r].event.context.user_id)) ]_vars

\* a request without a user_id asked what is remembered after a request with
\* the empty user_id, and was shown an item of that request
C39_Witness ==
    \E r, q \in RequestIds :
        /\ q < r
        /\ requests[r].pc = "done" /\ requests[r].event # None
        /\ requests[q].event # None
        /\ requests[r].event.content.text = recall_message
        /\ requests[r].event.context.user_id = NoneStr
        /\ requests[q].event.context.user_id = <<>>
        /\ Contains(requests[r].generated, user_prefix \o requests[q].event.content.text)

=============================================================================
